---- MODULE Spec2Model ----
(***************************************************************************)
(* md_to_conf: synchronisation of a local tree of markdown documents with  *)
(* a Confluence space.  The model covers the page cache (page_cache.py),   *)
(* title disambiguation (file_api.py), page upsert (page_api.py), the      *)
(* child-page tracker (child_pages.py), the reference retry pass           *)
(* (resolvers.py) and the run that drives them.                            *)
(*                                                                         *)
(* The program is sequential.  Each function of the source is an operator  *)
(* that takes the program state s (a record of every module-level          *)
(* collection plus the remote store) and returns the state after the call  *)
(* together with the call's return value.  The actions at the end of the   *)
(* module apply these operators to the variables.                          *)
(***************************************************************************)
EXTENDS Integers, Sequences, FiniteSets, TLC

VARIABLES
    pages,          \* remote store: page id -> page
    atts,           \* remote store: <<page id, filename>> -> attachment
    nextId,         \* remote store: next id handed out by a create
    local,          \* local tree: file path -> document
    disk,           \* local tree: image path -> bytes
    cache,          \* _PageCache.__CACHED_PAGE_INFO
    again,          \* _PageCache.__RESOLVE_REFS_AGAIN
    titleCache,     \* _FileApi.__TITLE_CACHE_BY_FILE
    shaCache,       \* _FileApi.__SHA_HASH_BY_FILE
    orig,           \* _ChildPageTracker.__ORIGINAL_CHILD_PAGES
    origOrder,      \* insertion order of the keys of __ORIGINAL_CHILD_PAGES
    active,         \* _ChildPageTracker.__ACTIVE_PAGES
    memo,           \* _ChildPageTracker.__CHILD_PAGES_CACHE
    calls,          \* history: the remote calls issued since the process started
    failed,         \* the process died (fatal remote error or uncaught exception)
    ret,            \* history: what the last operation was given and returned
    pc,             \* position of the driver
    walk,           \* folder walk: index of the next file of the folder
    landing,        \* folder walk: id of the folder's landing page
    run,            \* number of the current process (1 or 2) in the "run" driver
    SIMULATE        \* globals.SIMULATE

vars == << pages, atts, nextId, local, disk, cache, again, titleCache, shaCache,
           orig, origOrder, active, memo, calls, failed, ret, pc, walk,
           landing, run, SIMULATE >>

----------------------------------------------------------------------------
(* Bounds *)

\* number of pages the remote space may hold before the first run
MaxPre == 2
\* number of labels a remote page may carry besides the ownership label
MaxOtherLabels == 1
\* number of remote reads in an exercise of the page cache on its own
MaxReads == 3

----------------------------------------------------------------------------
(* Identifiers *)

\* the space's home page: parent of ANCESTOR and of pages elsewhere in the space
Home == 0
\* globals.ANCESTOR, the configured root page
ANCESTOR == 1
\* ids of the pages that exist before the first run
PreIds == 2 .. (1 + MaxPre)

OwnLabel == "md_to_conf"

NoPage == [none |-> TRUE]

Range(f) == {f[x] : x \in DOMAIN f}

Without(f, k) == [x \in DOMAIN f \ {k} |-> f[x]]

Put(f, k, v) == (k :> v) @@ f

\* the elements of a finite set of integers, ascending
RECURSIVE SortedSeq(_)
SortedSeq(S) ==
    IF S = {} THEN << >>
    ELSE LET m == CHOOSE m \in S : \A o \in S : m <= o
         IN << m >> \o SortedSeq(S \ {m})

SeqSet(q) == {q[i] : i \in 1 .. Len(q)}

\* the element of a one-element set.  Only({e : x \in {v}}) is e with the
\* local variable x holding v, computed once; nested, the variables are
\* listed innermost first, so the first assignment of the code is the last line
Only(S) == CHOOSE x \in S : TRUE

----------------------------------------------------------------------------
(* The program state as one record *)

Cur ==
    [pages |-> pages, atts |-> atts, nextId |-> nextId, cache |-> cache,
     again |-> again, titleCache |-> titleCache, shaCache |-> shaCache,
     orig |-> orig, origOrder |-> origOrder, active |-> active, memo |-> memo,
     calls |-> calls, failed |-> failed]

Commit(s) ==
    /\ pages' = s.pages
    /\ atts' = s.atts
    /\ nextId' = s.nextId
    /\ cache' = s.cache
    /\ again' = s.again
    /\ titleCache' = s.titleCache
    /\ shaCache' = s.shaCache
    /\ orig' = s.orig
    /\ origOrder' = s.origOrder
    /\ active' = s.active
    /\ memo' = s.memo
    /\ calls' = s.calls
    /\ failed' = s.failed

\* a remote call is appended to the history, with the position of the driver
\* that issued it.  The retry pass also records each file it takes up, as
\* "refs_only" with the file path as title.
Log(s, c) ==
    [s EXCEPT !.calls = Append(@, [op |-> c.op, id |-> c.id, title |-> c.title,
                                   ver |-> c.ver, cur |-> c.cur, ok |-> c.ok,
                                   at |-> pc])]

\* sys.exit / uncaught exception: nothing after it runs
Die(s) == [s EXCEPT !.failed = TRUE]

----------------------------------------------------------------------------
(* The remote store (Confluence), as the program uses it *)

\* What the store keeps of a body it is sent: it adds ac:schema-version and
\* ac:macro-id attributes to the macros of the body.
ServerStore(body) == [body EXCEPT !.srv = body.macro]

\* GET /rest/api/content?title=..&spaceKey=..: the pages with this title
RemoteFind(s, title) == {i \in DOMAIN s.pages : s.pages[i].title = title}

\* POST /rest/api/content/: a new page, version 1, no labels.  The store
\* rejects a title that is taken in the space.
RemoteCreate(s, title, body, anc) ==
    IF s.failed THEN s ELSE
    LET id == s.nextId
        ok == RemoteFind(s, title) = {}
        s1 == Log(s, [op |-> "create", id |-> id, title |-> title, ver |-> 1,
                      cur |-> 0, ok |-> ok])
    IN  IF ~ok THEN Die(s1)
        ELSE [s1 EXCEPT
                !.nextId = id + 1,
                !.pages = Put(@, id, [title |-> title, body |-> ServerStore(body),
                                      parent |-> anc, version |-> 1,
                                      labels |-> << >>])]

\* PUT /rest/api/content/<id> with a body: the store accepts version
\* current + 1 only, and answers 409 to any other.
RemoteUpdate(s, id, title, body, ver, anc) ==
    IF s.failed THEN s ELSE
    LET there == id \in DOMAIN s.pages
        cur == IF there THEN s.pages[id].version ELSE 0
        ok == /\ there
              /\ ver = cur + 1
              /\ RemoteFind(s, title) \subseteq {id}
        s1 == Log(s, [op |-> "update", id |-> id, title |-> title, ver |-> ver,
                      cur |-> cur, ok |-> ok])
    IN  IF ~ok THEN Die(s1)
        ELSE [s1 EXCEPT !.pages[id] =
                [@ EXCEPT !.title = title, !.body = ServerStore(body),
                          !.parent = anc, !.version = ver]]

\* PUT /rest/api/content/<id> without a body: the page is re-parented, its
\* body is kept.
RemoteMove(s, id, title, ver, anc) ==
    IF s.failed THEN s ELSE
    LET there == id \in DOMAIN s.pages
        cur == IF there THEN s.pages[id].version ELSE 0
        ok == /\ there
              /\ ver = cur + 1
              /\ RemoteFind(s, title) \subseteq {id}
        s1 == Log(s, [op |-> "move", id |-> id, title |-> title, ver |-> ver,
                      cur |-> cur, ok |-> ok])
    IN  IF ~ok THEN Die(s1)
        ELSE [s1 EXCEPT !.pages[id] =
                [@ EXCEPT !.title = title, !.parent = anc, !.version = ver]]

\* POST /rest/api/content/<id>/label: the label is added; the page version
\* does not change.
RemoteLabel(s, id, name) ==
    IF s.failed THEN s ELSE
    LET ok == id \in DOMAIN s.pages
        s1 == Log(s, [op |-> "label", id |-> id, title |-> name, ver |-> 0,
                      cur |-> 0, ok |-> ok])
    IN  IF ~ok THEN Die(s1)
        ELSE IF name \in SeqSet(s.pages[id].labels) THEN s1
        ELSE [s1 EXCEPT !.pages[id].labels = Append(@, name)]

\* GET /rest/api/content/search?cql=parent=<id>: the ids of the direct children
RemoteChildren(s, id) ==
    SortedSeq({i \in DOMAIN s.pages : s.pages[i].parent = id})

----------------------------------------------------------------------------
(* page_cache.py *)

\* re.sub(' ac:schema-version=..'), re.sub(' ac:macro-id=..') on a body read
StripServerAttrs(body) == [body EXCEPT !.srv = FALSE]

\* get_page that remembers a title it did not find: the absent answer is
\* cached as well
get_page_caches_absent(s, title) ==
    IF s.failed THEN [s |-> s, page |-> NoPage]
    ELSE IF title \in DOMAIN s.cache
    THEN [s |-> s, page |-> s.cache[title]]
    ELSE LET s1 == Log(s, [op |-> "get_page", id |-> 0, title |-> title,
                           ver |-> 0, cur |-> 0, ok |-> TRUE])
             found == RemoteFind(s, title)
         IN  IF found = {}
             THEN [s |-> [s1 EXCEPT !.cache = Put(@, title, NoPage)],
                   page |-> NoPage]
             ELSE LET i == CHOOSE i \in found : \A j \in found : i <= j
                      p == s.pages[i]
                      page == [id |-> i, version |-> p.version, link |-> i,
                               ancestor |-> p.parent, labels |-> p.labels,
                               body |-> StripServerAttrs(p.body),
                               title |-> p.title]
                  IN  [s |-> [s1 EXCEPT !.cache = Put(@, p.title, page)],
                       page |-> page]


get_page(s, title) ==
    IF s.failed THEN [s |-> s, page |-> NoPage]
    ELSE IF title \in DOMAIN s.cache
    THEN [s |-> s, page |-> s.cache[title]]
    ELSE LET s1 == Log(s, [op |-> "get_page", id |-> 0, title |-> title,
                           ver |-> 0, cur |-> 0, ok |-> TRUE])
             found == RemoteFind(s, title)
         IN  IF found = {} THEN [s |-> s1, page |-> NoPage]
             ELSE LET i == CHOOSE i \in found : \A j \in found : i <= j
                      p == s.pages[i]
                      page == [id |-> i, version |-> p.version, link |-> i,
                               ancestor |-> p.parent, labels |-> p.labels,
                               body |-> StripServerAttrs(p.body),
                               title |-> p.title]
                  IN  [s |-> [s1 EXCEPT !.cache = Put(@, p.title, page)],
                       page |-> page]

\* labels is a map object, an iterator: "x in labels" consumes it up to and
\* including the first x.  FirstAt is the position of that x, 0 if there is none.
FirstAt(q, x) ==
    IF x \in SeqSet(q) THEN CHOOSE k \in 1 .. Len(q) :
                               q[k] = x /\ \A j \in 1 .. (k - 1) : q[j] # x
    ELSE 0

\* is_page_unowned without the label test: every page found counts as owned
is_page_unowned_never(s, title) ==
    Only({ [s |-> r.s, ret |-> FALSE] : r \in {get_page(s, title)} })


is_page_unowned(s, title) ==
    Only({
        IF s.failed \/ r.page = NoPage THEN [s |-> r.s, ret |-> FALSE]
        ELSE LET k == FirstAt(r.page.labels, OwnLabel)
                 rest == IF k = 0 THEN << >>
                         ELSE SubSeq(r.page.labels, k + 1, Len(r.page.labels))
             IN  [s |-> [r.s EXCEPT !.cache[r.page.title].labels = rest],
                  ret |-> (k = 0)]
        : r \in {get_page(s, title)} })

forget_page(s, title) ==
    IF s.failed THEN s ELSE [s EXCEPT !.cache = Without(@, title)]

----------------------------------------------------------------------------
(* The local tree *)

\* the temporary file create_trash writes
TrashFile == "/tmp/orphan"

TrashDoc == [base |-> "__ORPHAN__", links |-> << >>, imgs |-> << >>,
             macro |-> TRUE]

\* the document a path holds
Doc(f) == IF f = TrashFile THEN TrashDoc ELSE local[f]

\* os.path.basename of the image paths of the model
Basename(path) ==
    CASE path = "a/x.png" -> "x.png"
      [] path = "b/x.png" -> "x.png"
      [] OTHER -> path

\* re.search('http.*', file)
IsHttp(path) == path = "http://h/x.png"

\* sha256 of a file's bytes
Sha256(bytes) == [sha |-> bytes]

----------------------------------------------------------------------------
(* file_api.py and _PageCache.resolve_refs *)

\* '%s (%d)' % (basetitle, i)
Suffixed(basetitle, i) == basetitle \o " (" \o ToString(i) \o ")"

\* the while loop of get_title without its first test: the titles already
\* given to other files are not looked at
RECURSIVE get_title_loop_remote_only(_, _, _)
get_title_loop_remote_only(s, basetitle, i) ==
    LET title == IF i = 0 THEN basetitle ELSE Suffixed(basetitle, i)
    IN  Only({
            IF u.ret THEN get_title_loop_remote_only(u.s, basetitle, i + 1)
            ELSE [s |-> u.s, ret |-> title]
        : u \in {is_page_unowned(s, title)} })

\* the while loop of get_title without its second test: the remote store is
\* not asked who owns the title
RECURSIVE get_title_loop_local_only(_, _, _)
get_title_loop_local_only(s, basetitle, i) ==
    LET title == IF i = 0 THEN basetitle ELSE Suffixed(basetitle, i)
    IN  IF title \in Range(s.titleCache)
        THEN get_title_loop_local_only(s, basetitle, i + 1)
        ELSE [s |-> s, ret |-> title]

\* the while loop of get_title, entered with the candidate number i
RECURSIVE get_title_loop(_, _, _)
get_title_loop(s, basetitle, i) ==
    LET title == IF i = 0 THEN basetitle ELSE Suffixed(basetitle, i)
    IN  IF title \in Range(s.titleCache)
        THEN get_title_loop(s, basetitle, i + 1)
        ELSE Only({
                 IF u.ret THEN get_title_loop(u.s, basetitle, i + 1)
                 ELSE [s |-> u.s, ret |-> title]
        : u \in {is_page_unowned(s, title)} })

get_title(s, f) ==
    IF s.failed THEN [s |-> s, ret |-> ""]
    ELSE IF f \in DOMAIN s.titleCache THEN [s |-> s, ret |-> s.titleCache[f]]
    ELSE Only({
             [s |-> [r.s EXCEPT !.titleCache = Put(@, f, r.ret)], ret |-> r.ret]
        : r \in {get_title_loop(s, Doc(f).base, 0)} })

\* html.replace(ref[0], 'href="' + page.link + '"'): every link with this
\* relative target is rewritten
ReplaceHref(links, target, link) ==
    [j \in DOMAIN links |->
        IF links[j].rel = target THEN [rel |-> "", url |-> link] ELSE links[j]]

\* the for loop of resolve_refs without the test of line 46: the file is
\* queued for every link that cannot be resolved
RECURSIVE resolve_refs_loop_enqueue_always(_, _, _, _, _)
resolve_refs_loop_enqueue_always(s, html, refs, filepath, i) ==
    IF s.failed \/ i > Len(refs) THEN [s |-> s, html |-> html]
    ELSE LET target == refs[i]
         IN  IF target \notin DOMAIN local
             THEN [s |-> Die(s), html |-> html]
             ELSE Only({
                      IF r.page # NoPage
                      THEN resolve_refs_loop_enqueue_always(
                               r.s,
                               [html EXCEPT !.links =
                                   ReplaceHref(@, target, r.page.link)],
                               refs, filepath, i + 1)
                      ELSE resolve_refs_loop_enqueue_always(
                               [r.s EXCEPT !.again = Append(@, filepath)],
                               html, refs, filepath, i + 1)
        : r \in {get_page(s, Doc(target).base)} })

\* the for loop of resolve_refs over the links found in the rendered html,
\* from the i-th on
RECURSIVE resolve_refs_loop(_, _, _, _, _)
resolve_refs_loop(s, html, refs, filepath, i) ==
    IF s.failed \/ i > Len(refs) THEN [s |-> s, html |-> html]
    ELSE LET target == refs[i]
         IN  IF target \notin DOMAIN local
             THEN [s |-> Die(s), html |-> html]    \* open() raises
             ELSE Only({
                      IF r.page # NoPage
                      THEN resolve_refs_loop(
                               r.s,
                               [html EXCEPT !.links =
                                   ReplaceHref(@, target, r.page.link)],
                               refs, filepath, i + 1)
                      ELSE resolve_refs_loop(
                               IF filepath \in SeqSet(r.s.again) THEN r.s
                               ELSE [r.s EXCEPT !.again = Append(@, filepath)],
                               html, refs, filepath, i + 1)
        : r \in {get_page(s, Doc(target).base)} })

resolve_refs(s, html, filepath) ==
    resolve_refs_loop(s, html, Doc(filepath).links, filepath, 1)

\* markdown.markdown and the macros: the rendered body of a file before its
\* links are resolved
Render(f) ==
    [links |-> [i \in 1 .. Len(Doc(f).links) |->
                   [rel |-> Doc(f).links[i], url |-> 0]],
     imgs |-> [i \in 1 .. Len(Doc(f).imgs) |->
                   [rel |-> Doc(f).imgs[i], pid |-> 0, base |-> ""]],
     macro |-> Doc(f).macro,
     srv |-> FALSE]

get_html(s, filepath) == resolve_refs(s, Render(filepath), filepath)

\* get_sha_hash that reads the file every time
get_sha_hash_uncached(s, file) ==
    [s |-> [s EXCEPT !.shaCache = Put(@, file, Sha256(disk[file]))],
     ret |-> Sha256(disk[file])]


get_sha_hash(s, file) ==
    IF file \in DOMAIN s.shaCache THEN [s |-> s, ret |-> s.shaCache[file]]
    ELSE LET digest == Sha256(disk[file])
         IN  [s |-> [s EXCEPT !.shaCache = Put(@, file, digest)],
              ret |-> digest]

----------------------------------------------------------------------------
(* page_api.py *)

NoHash == [sha |-> -1]

\* __get_attachment and __upload_attachment
upload_attachment(s, page_id, file) ==
    IF s.failed \/ IsHttp(file) \/ file \notin DOMAIN disk THEN s
    ELSE
    LET filename == Basename(file)
        key == << page_id, filename >>
    IN
    Only({ Only({
    LET sha == h.ret
        has == key \in DOMAIN s1.atts
    IN  IF has /\ sha = s1.atts[key].hash THEN s1
        ELSE
        LET old == IF has THEN s1.atts[key]
                   ELSE [data |-> -1, hash |-> NoHash, hver |-> 0]
            s2 == [Log(s1, [op |-> "upload", id |-> page_id,
                            title |-> filename, ver |-> 0, cur |-> 0,
                            ok |-> TRUE])
                   EXCEPT !.atts = Put(@, key, [old EXCEPT !.data = disk[file]])]
            version == old.hver
            s3 == Log(s2, [op |-> "get_hash", id |-> page_id,
                           title |-> filename, ver |-> 0, cur |-> version,
                           ok |-> TRUE])
        IN  [Log(s3, [op |-> "put_hash", id |-> page_id, title |-> filename,
                      ver |-> version + 1, cur |-> version, ok |-> TRUE])
             EXCEPT !.atts[key] = [@ EXCEPT !.hash = sha,
                                            !.hver = version + 1]]
        : s1 \in {Log(h.s, [op |-> "get_attachment", id |-> page_id,
                            title |-> filename, ver |-> 0, cur |-> 0,
                            ok |-> TRUE])} })
        : h \in {get_sha_hash(s, file)} })

\* html.replace(orig_rel_path, '/download/attachments/%s/%s'): every image
\* with this source is rewritten
ReplaceSrc(imgs, path, page_id) ==
    [j \in DOMAIN imgs |->
        IF imgs[j].rel = path
        THEN [rel |-> "", pid |-> page_id, base |-> Basename(path)]
        ELSE imgs[j]]

\* the for loop of __add_images over the <img/> tags found in the html it is
\* given, from the i-th on
RECURSIVE add_images_loop(_, _, _, _, _)
add_images_loop(s, page_id, html, tags, i) ==
    IF s.failed \/ i > Len(tags) THEN [s |-> s, html |-> html]
    ELSE LET path == tags[i].rel
             s1 == upload_attachment(s, page_id, path)
         IN  add_images_loop(
                 s1, page_id,
                 IF IsHttp(path) \/ path = "" THEN html
                 ELSE [html EXCEPT !.imgs = ReplaceSrc(@, path, page_id)],
                 tags, i + 1)

\* __add_images.  No document of the model links to a .png file, so the
\* second loop (the sub-page of an image link) finds nothing to do.
add_images(s, page_id, html, filepath) ==
    add_images_loop(s, page_id, html, html.imgs, 1)

label_page(s, page_id) == RemoteLabel(s, page_id, OwnLabel)

\* update_page without the third test of its comparison (line 167): a page
\* whose only change is its ancestor is not written
update_page_ancestor_blind(s, page_id, title, body, version, ancestors, filepath) ==
    IF s.failed THEN [s |-> s, ret |-> page_id]
    ELSE
    Only({ Only({
    LET existing == e.page
    IN  IF /\ existing # NoPage
           /\ title = existing.title
           /\ a.html = existing.body
        THEN [s |-> e.s, ret |-> page_id]
        ELSE [s |-> RemoteUpdate(forget_page(e.s, title), page_id, title,
                                 a.html, version + 1, ancestors),
              ret |-> page_id]
        : e \in {get_page(a.s, title)} })
        : a \in {add_images(s, page_id, body, filepath)} })

update_page(s, page_id, title, body, version, ancestors, filepath) ==
    IF s.failed THEN [s |-> s, ret |-> page_id]
    ELSE
    Only({ Only({
    LET existing == e.page
    IN  IF /\ existing # NoPage
           /\ title = existing.title
           /\ a.html = existing.body
           /\ ancestors = existing.ancestor
        THEN [s |-> e.s, ret |-> page_id]
        ELSE [s |-> RemoteUpdate(forget_page(e.s, title), page_id, title,
                                 a.html, version + 1, ancestors),
              ret |-> page_id]
        : e \in {get_page(a.s, title)} })
        : a \in {add_images(s, page_id, body, filepath)} })

\* re.search(r'<img(.*?)\/>', body)
HasImg(body) == Len(body.imgs) > 0

\* create_or_update_page without the test of line 138: update_page is called
\* after every creation
create_or_update_page_always_follows_up(s, title, body, ancestors, filepath) ==
    IF s.failed THEN [s |-> s, ret |-> 0]
    ELSE
    Only({
        IF r.page # NoPage
        THEN update_page(r.s, r.page.id, title, body, r.page.version,
                         ancestors, filepath)
        ELSE update_page(label_page(RemoteCreate(r.s, title, body, ancestors),
                                    r.s.nextId),
                         r.s.nextId, title, body, 1, ancestors, filepath)
        : r \in {get_page(s, title)} })

create_or_update_page(s, title, body, ancestors, filepath) ==
    IF s.failed THEN [s |-> s, ret |-> 0]
    ELSE
    Only({
        IF r.page # NoPage
        THEN update_page(r.s, r.page.id, title, body, r.page.version,
                         ancestors, filepath)
        ELSE LET page_id == r.s.nextId
                 s1 == RemoteCreate(r.s, title, body, ancestors)
                 version == 1
                 s2 == label_page(s1, page_id)
             IN  IF HasImg(body)
                 THEN update_page(s2, page_id, title, body, version,
                                  ancestors, filepath)
                 ELSE [s |-> s2, ret |-> page_id]
        : r \in {get_page(s, title)} })

\* what create_dir_landing_page returns in SIMULATE mode: []
EmptyList == -1

create_dir_landing_page(s, dir_landing_page_file, ancestors) ==
    Only({ Only({
        IF SIMULATE THEN [s |-> h.s, ret |-> EmptyList]
        ELSE create_or_update_page(h.s, t.ret, h.html, ancestors,
                                   dir_landing_page_file)
        : h \in {get_html(t.s, dir_landing_page_file)} })
        : t \in {get_title(s, dir_landing_page_file)} })

create_trash(s) ==
    Only({ Only({
        create_or_update_page(h.s, t.ret, h.html, ANCESTOR, TrashFile)
        : h \in {get_html(t.s, TrashFile)} })
        : t \in {get_title(s, TrashFile)} })

----------------------------------------------------------------------------
(* child_pages.py *)

get_direct_child_pages(s, page_id) ==
    [s |-> Log(s, [op |-> "children", id |-> page_id, title |-> "",
                   ver |-> 0, cur |-> 0, ok |-> TRUE]),
     ret |-> RemoteChildren(s, page_id)]

\* __get_child_pages.  Its for loop rebinds the parameter page_id to each
\* direct child in turn, so the memo entry written after the loop is keyed by
\* the last direct child when there is one.
RECURSIVE get_child_pages(_, _)
RECURSIVE get_child_pages_loop(_, _, _, _)

\* the for loop of __get_child_pages without line 99: what the children
\* return is not added to the list
RECURSIVE get_child_pages_loop_direct_only(_, _, _, _)
get_child_pages_loop_direct_only(s, direct, page_ids, i) ==
    IF i > Len(direct) THEN [s |-> s, ret |-> page_ids]
    ELSE Only({ get_child_pages_loop_direct_only(r.s, direct, page_ids, i + 1)
        : r \in {get_child_pages(s, direct[i])} })

get_child_pages_loop(s, direct, page_ids, i) ==
    IF i > Len(direct) THEN [s |-> s, ret |-> page_ids]
    ELSE Only({
         LET child_pages == r.ret
         IN  get_child_pages_loop(
                 r.s, direct,
                 IF child_pages # << >>
                 THEN page_ids \o
                      SortedSeq(SeqSet(child_pages) \ SeqSet(page_ids))
                 ELSE page_ids,
                 i + 1)
        : r \in {get_child_pages(s, direct[i])} })

get_child_pages(s, page_id) ==
    IF page_id \in DOMAIN s.memo THEN [s |-> s, ret |-> s.memo[page_id]]
    ELSE Only({ Only({
         LET key == IF d.ret = << >> THEN page_id ELSE d.ret[Len(d.ret)]
         IN  [s |-> [r.s EXCEPT !.memo = Put(Without(@, key), key, r.ret)],
              ret |-> r.ret]
        : r \in {get_child_pages_loop(d.s, d.ret, d.ret, 1)} })
        : d \in {get_direct_child_pages(s, page_id)} })

RECURSIVE track_child_pages_loop(_, _, _)
track_child_pages_loop(s, direct, i) ==
    IF i > Len(direct) THEN s
    ELSE LET child == direct[i]
         IN  Only({
             track_child_pages_loop(
                 [r.s EXCEPT
                    !.orig = Put(Without(@, child), child, r.ret),
                    !.origOrder = IF child \in SeqSet(@) THEN @
                                  ELSE Append(@, child)],
                 direct, i + 1)
        : r \in {get_child_pages(s, child)} })

\* track_child_pages that asks the store nothing and records nothing
track_child_pages_unasked(s) == s

track_child_pages(s) ==
    Only({
        track_child_pages_loop(d.s, d.ret, 1)
        : d \in {get_direct_child_pages(s, ANCESTOR)} })

\* mark_page_active without the test of line 44: the page is appended anyway
mark_page_active_appends_anyway(s, page) ==
    IF s.failed THEN s
    ELSE [s EXCEPT !.active = Append(@, page)]

\* mark_page_active also dropping the page from the snapshot's keys
mark_page_active_untracks(s, page) ==
    IF s.failed \/ page \in SeqSet(s.active) THEN s
    ELSE [s EXCEPT !.active = Append(@, page), !.orig = Without(@, page)]

mark_page_active(s, page) ==
    IF s.failed \/ page \in SeqSet(s.active) THEN s
    ELSE [s EXCEPT !.active = Append(@, page)]

\* trash_needed without the test of line 53: any top-level page counts
trash_needed_any_top_level(s) ==
    \E i \in 1 .. Len(s.origOrder) :
        \E j \in 1 .. Len(s.orig[s.origOrder[i]]) :
            s.orig[s.origOrder[i]][j] \notin SeqSet(s.active)

\* trash_needed without the test of line 55: any child of an active top-level
\* page counts
trash_needed_any_child(s) ==
    \E i \in 1 .. Len(s.origOrder) :
        /\ s.origOrder[i] \in SeqSet(s.active)
        /\ Len(s.orig[s.origOrder[i]]) > 0


trash_needed(s) ==
    \E i \in 1 .. Len(s.origOrder) :
        /\ s.origOrder[i] \in SeqSet(s.active)
        /\ \E j \in 1 .. Len(s.orig[s.origOrder[i]]) :
              s.orig[s.origOrder[i]][j] \notin SeqSet(s.active)

\* __delete_page as a true deletion: DELETE /rest/api/content/<id>
delete_page_for_good(s, page_id, trash_ancestor) ==
    IF s.failed THEN s
    ELSE
    LET ok == page_id \in DOMAIN s.pages
        s1 == Log(s, [op |-> "delete", id |-> page_id, title |-> "",
                      ver |-> 0, cur |-> 0, ok |-> ok])
    IN  IF ~ok THEN Die(s1)
        ELSE [s1 EXCEPT !.pages = Without(@, page_id)]

\* __delete_page sending the version it read, not the next one
delete_page_same_version(s, page_id, trash_ancestor) ==
    IF s.failed THEN s
    ELSE
    LET ok == page_id \in DOMAIN s.pages
        s1 == Log(s, [op |-> "get_by_id", id |-> page_id, title |-> "",
                      ver |-> 0, cur |-> 0, ok |-> ok])
    IN  IF ~ok THEN Die(s1)
        ELSE RemoteMove(s1, page_id, s.pages[page_id].title,
                        s.pages[page_id].version, trash_ancestor)

\* __delete_page: the page is read by id for its version and title, then
\* written back with the trash page as its only ancestor
delete_page(s, page_id, trash_ancestor) ==
    IF s.failed THEN s
    ELSE
    LET ok == page_id \in DOMAIN s.pages
        s1 == Log(s, [op |-> "get_by_id", id |-> page_id, title |-> "",
                      ver |-> 0, cur |-> 0, ok |-> ok])
    IN  IF ~ok THEN Die(s1)
        ELSE RemoteMove(s1, page_id, s.pages[page_id].title,
                        s.pages[page_id].version + 1, trash_ancestor)

\* trim_child_pages without the test of line 71: no top-level page is spared
RECURSIVE ToTrim_spare_none(_, _, _)
ToTrim_spare_none(s, i, j) ==
    IF i > Len(s.origOrder) THEN << >>
    ELSE LET children == s.orig[s.origOrder[i]]
         IN  IF j > Len(children)
             THEN ToTrim_spare_none(s, i + 1, 1)
             ELSE (IF children[j] \notin SeqSet(s.active)
                   THEN << children[j] >> ELSE << >>)
                  \o ToTrim_spare_none(s, i, j + 1)

\* the pages trim_child_pages hands to __delete_page, in order
RECURSIVE ToTrim(_, _, _)
ToTrim(s, i, j) ==
    IF i > Len(s.origOrder) THEN << >>
    ELSE LET original_child_page == s.origOrder[i]
             children == s.orig[original_child_page]
         IN  IF original_child_page \notin SeqSet(s.active) \/ j > Len(children)
             THEN ToTrim(s, i + 1, 1)
             ELSE (IF children[j] \notin SeqSet(s.active)
                   THEN << children[j] >> ELSE << >>)
                  \o ToTrim(s, i, j + 1)

RECURSIVE delete_pages(_, _, _, _)
delete_pages(s, todo, trash_ancestor, k) ==
    IF k > Len(todo) THEN s
    ELSE delete_pages(delete_page(s, todo[k], trash_ancestor), todo,
                      trash_ancestor, k + 1)

trim_child_pages(s, trash_ancestor) ==
    IF SIMULATE THEN s
    ELSE delete_pages(s, ToTrim(s, 1, 1), trash_ancestor, 1)

----------------------------------------------------------------------------
(* resolvers.py *)

\* __update_page_refs_only passing the root of the documentation as ancestor
\* instead of the ancestor of the page record
update_page_refs_only_under_root(s, filepath) ==
    IF s.failed THEN s
    ELSE
    Only({ Only({ Only({
    LET title == t.ret
        page == p.page
    IN  IF page = NoPage THEN Die(h.s)
        ELSE update_page(h.s, page.id, title, h.html, page.version,
                         ANCESTOR, filepath).s
        : h \in {get_html(p.s, filepath)} })
        : p \in {get_page(Log(t.s, [op |-> "refs_only", id |-> 0,
                                    title |-> filepath, ver |-> 0, cur |-> 0,
                                    ok |-> TRUE]),
                          t.ret)} })
        : t \in {get_title(s, filepath)} })


update_page_refs_only(s, filepath) ==
    IF s.failed THEN s
    ELSE
    Only({ Only({ Only({
    LET title == t.ret
        page == p.page
    IN  IF page = NoPage THEN Die(h.s)      \* page.version on False raises
        ELSE update_page(h.s, page.id, title, h.html, page.version,
                         page.ancestor, filepath).s
        : h \in {get_html(p.s, filepath)} })
        : p \in {get_page(Log(t.s, [op |-> "refs_only", id |-> 0,
                                    title |-> filepath, ver |-> 0, cur |-> 0,
                                    ok |-> TRUE]),
                          t.ret)} })
        : t \in {get_title(s, filepath)} })

\* the for loop of resolve_missing_refs stopping after the first queued file
resolve_missing_refs_loop_first_only(s, i) ==
    IF s.failed \/ i > 1 \/ i > Len(s.again) THEN s
    ELSE update_page_refs_only(s, s.again[i])

\* the for loop iterates over the list __RESOLVE_REFS_AGAIN itself, so it
\* also reaches entries appended while it runs
RECURSIVE resolve_missing_refs_loop(_, _)
resolve_missing_refs_loop(s, i) ==
    IF s.failed \/ i > Len(s.again) THEN s
    ELSE resolve_missing_refs_loop(update_page_refs_only(s, s.again[i]), i + 1)

resolve_missing_refs(s) == resolve_missing_refs_loop(s, 1)

----------------------------------------------------------------------------
(* The run: main() and upload_folder() *)

\* the documentation root holds README.md and these files, in scandir order
LandingFile == "f0"
WalkFiles == << "f1", "f2" >>

EmptyBody == [links |-> << >>, imgs |-> << >>, macro |-> FALSE, srv |-> FALSE]

\* a fresh process: every module-level collection is empty
FreshProcess ==
    /\ cache = << >>
    /\ again = << >>
    /\ titleCache = << >>
    /\ shaCache = << >>
    /\ orig = << >>
    /\ origOrder = << >>
    /\ active = << >>
    /\ memo = << >>
    /\ calls = << >>
    /\ failed = FALSE

\* the documents the local tree may hold
RunLocals ==
    { ("f0" :> [base |-> "R", links |-> << >>, imgs |-> << >>, macro |-> TRUE])
      @@ ("f1" :> [base |-> "A", links |-> l1, imgs |-> i1, macro |-> FALSE])
      @@ ("f2" :> [base |-> b2, links |-> l2, imgs |-> << >>, macro |-> FALSE]) :
        l1 \in {<< >>, << "f2" >>}, i1 \in {<< >>, << "a/x.png" >>},
        b2 \in {"A", "B"}, l2 \in {<< >>, << "f1" >>} }

\* the titles, parents and label lists a page of the space may have before
\* the first run
PreTitles == {"R", "A", "A (1)"}
PreLabels == { << >>, << OwnLabel >> }
PreParents(i) == {Home, ANCESTOR} \cup {j \in PreIds : j < i}

PrePage(i) ==
    [title : PreTitles, body : {EmptyBody}, parent : PreParents(i),
     version : {i + 1}, labels : PreLabels]

\* the remote spaces in which exactly the pages 2 .. n exist, with pairwise
\* distinct titles
RECURSIVE SpacesTo(_)
SpacesTo(n) ==
    IF n < 2 THEN { << >> }
    ELSE { Put(f, n, p) :
             f \in SpacesTo(n - 1),
             p \in PrePage(n) }

DistinctTitles(f) == \A i, j \in DOMAIN f : i # j => f[i].title # f[j].title

PreSpaces ==
    UNION { { f \in SpacesTo(n) : DistinctTitles(f) } : n \in 1 .. (1 + MaxPre) }

InitRun ==
    /\ local \in RunLocals
    /\ disk = ("a/x.png" :> 7)
    /\ pages \in PreSpaces
    /\ atts = << >>
    /\ nextId = 2 + MaxPre
    /\ FreshProcess
    /\ ret = [op |-> "none"]
    /\ pc = "track"
    /\ walk = 0
    /\ landing = 0
    /\ run = 1
    /\ SIMULATE = FALSE

\* the driver moves on, or stops when the process died
Goto(s, next) == pc' = IF s.failed THEN "dead" ELSE next

Same == UNCHANGED << local, disk, run, SIMULATE >>

\* CHILD_PAGES.track_child_pages()
Track ==
    /\ pc = "track"
    /\ \E s \in {track_child_pages(Cur)} :
           Commit(s) /\ Goto(s, "landing")
    /\ UNCHANGED << ret, walk, landing >>
    /\ Same

\* upload_folder: the landing page of the folder
UploadLanding ==
    /\ pc = "landing"
    /\ \E r \in {create_dir_landing_page(Cur, LandingFile, ANCESTOR)} :
       \E s \in {mark_page_active(r.s, r.ret)} :
           /\ Commit(s) /\ Goto(s, "files")
           /\ landing' = r.ret
    /\ walk' = 1
    /\ UNCHANGED ret
    /\ Same

\* upload_folder: one markdown file of the folder
UploadFile ==
    /\ pc = "files" /\ walk <= Len(WalkFiles)
    /\ \E file \in {WalkFiles[walk]} :
       \E t \in {get_title(Cur, file)} :
       \E h \in {get_html(t.s, file)} :
       \E s \in {IF SIMULATE THEN h.s
                 ELSE Only({ mark_page_active(c.s, c.ret)
        : c \in {create_or_update_page(h.s, t.ret, h.html, landing, file)} })} :
           Commit(s) /\ Goto(s, IF walk = Len(WalkFiles) THEN "retry" ELSE "files")
    /\ walk' = walk + 1
    /\ UNCHANGED << ret, landing >>
    /\ Same

\* RESOLVERS.resolve_missing_refs()
Retry ==
    /\ pc = "retry"
    /\ \E s \in {resolve_missing_refs(Cur)} :
           Commit(s) /\ Goto(s, "trash")
    /\ UNCHANGED << ret, walk, landing >>
    /\ Same

\* if CHILD_PAGES.trash_needed(): create_trash(), trim_child_pages(trash)
TrashAndTrim ==
    /\ pc = "trash"
    /\ trash_needed(Cur)
    /\ \E t \in {create_trash(Cur)} :
       \E s \in {trim_child_pages(t.s, t.ret)} :
           Commit(s) /\ Goto(s, "done")
    /\ UNCHANGED << ret, walk, landing >>
    /\ Same

NoTrash ==
    /\ pc = "trash"
    /\ ~trash_needed(Cur)
    /\ pc' = "done"
    /\ UNCHANGED << pages, atts, nextId, cache, again, titleCache, shaCache,
                    orig, origOrder, active, memo, calls, failed, ret, walk,
                    landing >>
    /\ Same

\* the program is started again on the same tree and the same space
SecondRun ==
    /\ pc = "done" /\ run = 1
    /\ run' = 2
    /\ pc' = "track"
    /\ cache' = << >>
    /\ again' = << >>
    /\ titleCache' = << >>
    /\ shaCache' = << >>
    /\ orig' = << >>
    /\ origOrder' = << >>
    /\ active' = << >>
    /\ memo' = << >>
    /\ calls' = << >>
    /\ failed' = FALSE
    /\ walk' = 0
    /\ landing' = 0
    /\ UNCHANGED << pages, atts, nextId, local, disk, ret, SIMULATE >>

Next ==
    \/ Track
    \/ UploadLanding
    \/ UploadFile
    \/ Retry
    \/ TrashAndTrim
    \/ NoTrash
    \/ SecondRun

Spec == InitRun /\ [][Next]_vars

----------------------------------------------------------------------------
(* The child-page tracker on its own: a tree of pages in the space, the      *)
(* snapshot taken of it, any set of pages marked active (in ascending order   *)
(* of their ids), the trash decision and one trimming.                       *)

\* number of pages of the tree, besides the trash page
MaxTree == 4

TreeIds == 2 .. (1 + MaxTree)

\* the page handed to trim_child_pages as trash ancestor
TrashId == 2 + MaxTree

\* page i of the tree: its title and body tell it from every other page
TreePage(i, parent) ==
    [title |-> "P" \o ToString(i),
     body |-> [links |-> << [rel |-> "", url |-> i] >>, imgs |-> << >>,
               macro |-> FALSE, srv |-> FALSE],
     parent |-> parent, version |-> i + 1, labels |-> << OwnLabel >>]

RECURSIVE TreesTo(_)
TreesTo(n) ==
    IF n < 2 THEN { << >> }
    ELSE { Put(f, n, TreePage(n, p)) :
             f \in TreesTo(n - 1),
             p \in {Home, ANCESTOR} \cup (2 .. (n - 1)) }

InitTracker ==
    /\ local = << >>
    /\ disk = << >>
    /\ pages \in { Put(f, TrashId, [TreePage(TrashId, ANCESTOR) EXCEPT
                                      !.title = "__ORPHAN__"]) :
                     f \in TreesTo(1 + MaxTree) }
    /\ atts = << >>
    /\ nextId = TrashId + 1
    /\ FreshProcess
    /\ ret = [op |-> "none"]
    /\ pc = "track"
    /\ walk = 0
    /\ landing = 0
    /\ run = 1
    /\ SIMULATE \in BOOLEAN

Fixed == UNCHANGED << local, disk, walk, landing, run, SIMULATE >>

TrackOp ==
    /\ pc = "track"
    /\ LET s == track_child_pages(Cur)
       IN  Commit(s) /\ Goto(s, "marking")
    /\ ret' = [op |-> "track"]
    /\ Fixed

MarkActiveOp ==
    /\ pc = "marking"
    /\ \E page \in DOMAIN pages :
          /\ page \in SeqSet(active) \/ \A q \in SeqSet(active) : q <= page
          /\ Commit(mark_page_active(Cur, page))
          /\ ret' = [op |-> "mark", page |-> page]
    /\ pc' = pc
    /\ Fixed

TrashNeededOp ==
    /\ pc = "marking"
    /\ ret' = [op |-> "trash_needed", val |-> trash_needed(Cur)]
    /\ UNCHANGED << pages, atts, nextId, cache, again, titleCache, shaCache,
                    orig, origOrder, active, memo, calls, failed, pc >>
    /\ Fixed

TrimOp ==
    /\ pc = "marking"
    /\ LET s == trim_child_pages(Cur, TrashId)
       IN  Commit(s) /\ Goto(s, "trimmed")
    /\ ret' = [op |-> "trim", trash |-> TrashId]
    /\ Fixed

NextTracker ==
    \/ TrackOp
    \/ MarkActiveOp
    \/ TrashNeededOp
    \/ TrimOp

SpecTracker == InitTracker /\ [][NextTracker]_vars

----------------------------------------------------------------------------
(* Claims about the child-page tracker, checked under SpecTracker *)

ActiveSet == SeqSet(active)

\* the top-level tracked pages: the keys of the snapshot
TopLevel == DOMAIN orig

\* the ids the snapshot lists as descendants of the top-level page t
Descendants(t) == SeqSet(orig[t])

\* the pages a successful relocation call was issued for
Relocated == { calls[i].id : i \in { k \in 1 .. Len(calls) :
                                       calls[k].op = "move" /\ calls[k].ok } }

\* (a) p is a listed descendant of a top-level tracked page t, (b) t is
\* active, (c) p is not active
Eligible ==
    { p \in DOMAIN pages :
        \E t \in TopLevel : /\ p \in Descendants(t)
                            /\ t \in ActiveSet
                            /\ p \notin ActiveSet }

\* C2: once trim_child_pages has run (not in dry-run mode), the pages it
\* relocated are exactly the eligible ones: the inactive listed descendants of
\* the active top-level tracked pages.  No top-level tracked page and no
\* active page was relocated, and an inactive top-level tracked page kept all
\* of its descendants.
C2_TrimRelocatesEligible ==
    (pc = "trimmed" /\ ~SIMULATE) =>
        /\ Relocated = Eligible
        /\ Relocated \cap TopLevel = {}
        /\ Relocated \cap ActiveSet = {}
        /\ \A t \in TopLevel :
              t \notin ActiveSet => Descendants(t) \cap Relocated = {}

\* a trimming that relocated an inactive listed descendant of an active
\* top-level page, while an inactive top-level page was spared together with
\* its inactive descendant
C2_Witness ==
    /\ pc = "trimmed" /\ ~SIMULATE
    /\ \E t \in TopLevel, q \in DOMAIN pages :
          /\ t \in ActiveSet
          /\ q \in Descendants(t) \ ActiveSet
          /\ q \in Relocated
          /\ pages[q].parent = TrashId
    /\ \E t \in TopLevel, q \in DOMAIN pages :
          /\ t \notin ActiveSet
          /\ q \in Descendants(t) \ ActiveSet
          /\ q \notin Relocated
          /\ pages[q].parent # TrashId

\* C3: trash_needed() is true exactly when some top-level tracked page is
\* active and lists a descendant that is not active, and the call changes
\* nothing of the program state.
C3_TrashNeeded ==
    [][ ret'.op = "trash_needed"
        => /\ ret'.val = (\E t \in TopLevel :
                             /\ t \in ActiveSet
                             /\ \E p \in Descendants(t) : p \notin ActiveSet)
           /\ UNCHANGED << pages, orig, origOrder, active, memo, cache, calls >>
      ]_vars

\* trash_needed() answered true: an active top-level page lists an active and
\* an inactive descendant
C3_Witness ==
    /\ ret.op = "trash_needed" /\ ret.val
    /\ \E t \in TopLevel : /\ t \in ActiveSet
                            /\ Descendants(t) \ ActiveSet # {}
                            /\ Descendants(t) \cap ActiveSet # {}


\* the pages, of the calls c, a successful relocation call was issued for
RelocatedIn(c) == { c[i].id : i \in { k \in 1 .. Len(c) :
                                        c[k].op = "move" /\ c[k].ok } }

\* C10: a trimming re-parents every page it relocates directly under the trash
\* ancestor and raises its version by exactly one; the page keeps its id,
\* title, body and labels, every other page is left as it was, no page
\* disappears and no delete-page call is issued.
C10_RelocationPreservesContent ==
    [][ (pc = "marking" /\ ret'.op = "trim")
        => /\ DOMAIN pages' = DOMAIN pages
           /\ \A p \in DOMAIN pages :
                 pages'[p] = IF p \in RelocatedIn(calls')
                             THEN [pages[p] EXCEPT !.parent = ret'.trash,
                                                   !.version = @ + 1]
                             ELSE pages[p]
           /\ \A i \in 1 .. Len(calls') : calls'[i].op # "delete"
      ]_vars

\* a trimming relocated a page that had an active child and a body of its
\* own: the page is under the trash page, one version later, with its title,
\* body and label, and its child is still its child
C10_Witness ==
    /\ pc = "trimmed"
    /\ \E p \in Relocated, c \in DOMAIN pages :
          /\ pages[p].parent = TrashId
          /\ pages[p].version = p + 2
          /\ pages[p].title = TreePage(p, Home).title
          /\ pages[p].body = TreePage(p, Home).body
          /\ pages[p].labels = << OwnLabel >>
          /\ pages[c].parent = p
          /\ c \in ActiveSet \ Relocated


----------------------------------------------------------------------------
(* Claims about whole runs, checked under Spec *)

\* the positions, in the history, of the calls that change a page: page
\* create, page update, label attach, relocation
MutatingCalls ==
    { i \in 1 .. Len(calls) : calls[i].op \in {"create", "update", "label", "move"} }

\* the positions of the page-update writes: PUT /rest/api/content/<id>
Writes == { i \in 1 .. Len(calls) : calls[i].op \in {"update", "move"} }

\* C1: the second run over the unchanged tree issues no page-mutating remote
\* call: no page create, no page update, no label attach, no relocation.
C1_SecondRunMutatesNothing ==
    run = 2 => MutatingCalls = {}

\* C4: every page-update write, whether issued by create_or_update, by the
\* reference retry pass or by relocation, carries the page's current remote
\* version plus one, and none is rejected.
C4_WritesCarryNextVersion ==
    \A i \in Writes : calls[i].ver = calls[i].cur + 1 /\ calls[i].ok

\* a finished run in which the folder walk, the retry pass and the relocation
\* each wrote a page
C4_Witness ==
    /\ pc = "done"
    /\ \E i, j, k \in Writes :
          /\ calls[i].op = "update" /\ calls[i].at = "files"
          /\ calls[j].op = "update" /\ calls[j].at = "retry"
          /\ calls[k].op = "move" /\ calls[k].at = "trash"
          /\ calls[i].ok /\ calls[j].ok /\ calls[k].ok

\* C6: a title that was written successfully has no entry in the page cache
\* unless the remote store was read for that title after the write.
C6_NoEntryAfterWrite ==
    \A i \in Writes :
        (calls[i].ok /\ calls[i].title \in DOMAIN cache)
            => \E j \in (i + 1) .. Len(calls) :
                  calls[j].op = "get_page" /\ calls[j].title = calls[i].title


----------------------------------------------------------------------------
(* Title assignment on its own: three documents are given their titles in    *)
(* the order f1, f2, f3, against a space whose pages may carry the same      *)
(* titles; get_title may be called again for a file that has its title.      *)

TitleFiles == << "f1", "f2", "f3" >>

TitleBases == {"T", "T (1)", "U"}

TitleLocals ==
    { [f \in SeqSet(TitleFiles) |->
          [base |-> b[f], links |-> << >>, imgs |-> << >>, macro |-> FALSE]] :
        b \in [SeqSet(TitleFiles) -> TitleBases] }

TitlePage(i) ==
    [title : {"T", "T (1)", "T (2)", "U"}, body : {EmptyBody},
     parent : {ANCESTOR}, version : {1}, labels : PreLabels]

RECURSIVE TitleSpacesTo(_)
TitleSpacesTo(n) ==
    IF n < 2 THEN { << >> }
    ELSE { Put(f, n, p) : f \in TitleSpacesTo(n - 1), p \in TitlePage(n) }

TitleSpaces ==
    UNION { { f \in TitleSpacesTo(n) : DistinctTitles(f) } :
              n \in 1 .. (1 + MaxPre) }

InitTitle ==
    /\ local \in TitleLocals
    /\ disk = << >>
    /\ pages \in TitleSpaces
    /\ atts = << >>
    /\ nextId = 2 + MaxPre
    /\ FreshProcess
    /\ ret = [op |-> "none"]
    /\ pc = "titles"
    /\ walk = 0
    /\ landing = 0
    /\ run = 1
    /\ SIMULATE = FALSE

\* FILE_API.get_title(file), for the next file or one that has its title
GetTitleOp ==
    /\ pc = "titles"
    /\ \E n \in 1 .. Len(TitleFiles) :
          /\ n <= walk + 1
          /\ LET r == get_title(Cur, TitleFiles[n])
             IN  /\ Commit(r.s)
                 /\ ret' = [op |-> "get_title", file |-> TitleFiles[n],
                            val |-> r.ret]
          /\ walk' = IF n = walk + 1 THEN n ELSE walk
    /\ UNCHANGED << pc, local, disk, landing, run, SIMULATE >>

NextTitle == GetTitleOp

SpecTitle == InitTitle /\ [][NextTitle]_vars

----------------------------------------------------------------------------
(* Claims about title assignment, checked under SpecTitle *)

\* the n-th title in the series T, "T (1)", "T (2)", ...
Candidate(T, n) == IF n = 0 THEN T ELSE T \o " (" \o ToString(n) \o ")"

\* no document needs a higher number than this
MaxCandidate == Len(TitleFiles) + Cardinality(DOMAIN pages)

\* a remote page with this title exists and lacks the ownership label
UnownedRemote(title) ==
    \E i \in DOMAIN pages :
        pages[i].title = title /\ OwnLabel \notin SeqSet(pages[i].labels)

BaseOf(n) == local[TitleFiles[n]].base

TitleOf(n) == titleCache[TitleFiles[n]]

\* how many documents with the same base title were met before the n-th
Rank(n) == Cardinality({ m \in 1 .. (n - 1) : BaseOf(m) = BaseOf(n) })

\* no document with another base title was given a title of T's series
SeriesUndisturbed(n) ==
    \A m \in 1 .. (n - 1), i \in 0 .. MaxCandidate :
        BaseOf(m) # BaseOf(n) => TitleOf(m) # Candidate(BaseOf(n), i)

\* C7 as stated: documents with base title T get T, "T (1)", ... in the order
\* they are met when no unowned remote page has a title of the series; when an
\* unowned remote page is titled T, the first of them gets "T (1)".
C7_AsStated ==
    \A n \in 1 .. walk :
        /\ (\A i \in 0 .. MaxCandidate : ~UnownedRemote(Candidate(BaseOf(n), i)))
              => TitleOf(n) = Candidate(BaseOf(n), Rank(n))
        /\ (UnownedRemote(BaseOf(n)) /\ Rank(n) = 0)
              => TitleOf(n) = Candidate(BaseOf(n), 1)

\* C7: every document gets the first title of the series T, "T (1)", "T (2)",
\* ... that was not given to a document met earlier and is not the title of an
\* unowned remote page.  When no document of another base title holds a title
\* of the series: with no unowned remote page in the series the documents
\* get T, "T (1)", ... in the order they are met; with T the only unowned
\* remote title of the series they get "T (1)", "T (2)", ...
C7_FirstFreeTitle ==
    \A n \in 1 .. walk :
        LET T == BaseOf(n)
            Free(i) == /\ \A m \in 1 .. (n - 1) : TitleOf(m) # Candidate(T, i)
                       /\ ~UnownedRemote(Candidate(T, i))
        IN  /\ \E k \in 0 .. MaxCandidate :
                  /\ Free(k)
                  /\ \A j \in 0 .. (k - 1) : ~Free(j)
                  /\ TitleOf(n) = Candidate(T, k)
            /\ (/\ SeriesUndisturbed(n)
                /\ \A i \in 0 .. MaxCandidate : ~UnownedRemote(Candidate(T, i)))
                  => TitleOf(n) = Candidate(T, Rank(n))
            /\ (/\ SeriesUndisturbed(n)
                /\ UnownedRemote(T)
                /\ \A i \in 1 .. MaxCandidate : ~UnownedRemote(Candidate(T, i)))
                  => TitleOf(n) = Candidate(T, Rank(n) + 1)

\* three documents titled T met an unowned remote page titled T
C7_Witness ==
    /\ walk = 3
    /\ UnownedRemote("T")
    /\ titleCache = [f1 |-> "T (1)", f2 |-> "T (2)", f3 |-> "T (3)"]


----------------------------------------------------------------------------
(* The page cache on its own: lookups, ownership tests and evictions by      *)
(* title, in any order, against a space nobody changes.                      *)

OtherLabels == { "team-" \o ToString(i) : i \in 1 .. MaxOtherLabels }

\* the label lists over a set of labels: every label at most once, any order
RECURSIVE LabelLists(_)
LabelLists(S) ==
    { << >> } \cup
    UNION { { << l >> \o q : q \in LabelLists(S \ {l}) } : l \in S }

CacheTitles == {"T", "U", "V"}

CachePage(i) ==
    [title : {"T", "U"}, body : {EmptyBody}, parent : {ANCESTOR},
     version : {1}, labels : LabelLists(OtherLabels \cup {OwnLabel})]

RECURSIVE CacheSpacesTo(_)
CacheSpacesTo(n) ==
    IF n < 2 THEN { << >> }
    ELSE { Put(f, n, p) : f \in CacheSpacesTo(n - 1), p \in CachePage(n) }

CacheSpaces ==
    UNION { { f \in CacheSpacesTo(n) : DistinctTitles(f) } :
              n \in 1 .. (1 + MaxPre) }

InitCache ==
    /\ local = << >>
    /\ disk = << >>
    /\ pages \in CacheSpaces
    /\ atts = << >>
    /\ nextId = 2 + MaxPre
    /\ FreshProcess
    /\ ret = [op |-> "none"]
    /\ pc = "cache"
    /\ walk = 0
    /\ landing = 0
    /\ run = 1
    /\ SIMULATE = FALSE

CacheFixed == UNCHANGED << pc, local, disk, walk, landing, run, SIMULATE >>

\* PAGE_CACHE.get_page(title)
GetPageOp ==
    /\ pc = "cache" /\ Len(calls) < MaxReads
    /\ \E title \in CacheTitles :
          LET r == get_page(Cur, title)
          IN  /\ Commit(r.s)
              /\ ret' = [op |-> "get_page", title |-> title,
                         found |-> r.page # NoPage]
    /\ CacheFixed

\* PAGE_CACHE.is_page_unowned(title)
IsPageUnownedOp ==
    /\ pc = "cache" /\ Len(calls) < MaxReads
    /\ \E title \in CacheTitles :
          LET r == is_page_unowned(Cur, title)
          IN  /\ Commit(r.s)
              /\ ret' = [op |-> "is_page_unowned", title |-> title,
                         val |-> r.ret]
    /\ CacheFixed

\* PAGE_CACHE.forget_page(title)
ForgetPageOp ==
    /\ pc = "cache"
    /\ \E title \in CacheTitles :
          /\ Commit(forget_page(Cur, title))
          /\ ret' = [op |-> "forget_page", title |-> title]
    /\ CacheFixed

NextCache ==
    \/ GetPageOp
    \/ IsPageUnownedOp
    \/ ForgetPageOp

SpecCache == InitCache /\ [][NextCache]_vars

----------------------------------------------------------------------------
(* Claims about the page cache, checked under SpecCache *)

\* C9: whenever is_page_unowned(title) returns, its answer is true exactly
\* when the space holds a page with that title whose labels lack
\* 'md_to_conf', whether or not the title's record was in the cache.
C9_UnownedIffExistsUnlabelled ==
    ret.op = "is_page_unowned" => (ret.val <=> UnownedRemote(ret.title))


----------------------------------------------------------------------------
(* update_page on its own: after any lookups, a page of the space is updated *)
(* twice from the local documents, under its own title or a new one.         *)

UpsertLocals ==
    ("f0" :> [base |-> "R", links |-> << >>, imgs |-> << >>, macro |-> TRUE])
    @@ ("f1" :> [base |-> "A", links |-> << >>, imgs |-> << "a/x.png" >>,
                 macro |-> FALSE])

UpsertPage(i) ==
    [title : {"R", "A"}, body : {EmptyBody}, parent : {Home, ANCESTOR},
     version : {i + 1}, labels : {<< OwnLabel >>}]

RECURSIVE UpsertSpacesTo(_)
UpsertSpacesTo(n) ==
    IF n < 2 THEN { << >> }
    ELSE { Put(f, n, p) : f \in UpsertSpacesTo(n - 1), p \in UpsertPage(n) }

UpsertSpaces ==
    UNION { { f \in UpsertSpacesTo(n) : DistinctTitles(f) } :
              n \in 2 .. (1 + MaxPre) }

InitUpsert ==
    /\ local = UpsertLocals
    /\ disk = ("a/x.png" :> 7)
    /\ pages \in UpsertSpaces
    /\ atts = << >>
    /\ nextId = 2 + MaxPre
    /\ FreshProcess
    /\ ret = [op |-> "none"]
    /\ pc = "lookups"
    /\ walk = 0
    /\ landing = 0
    /\ run = 1
    /\ SIMULATE = FALSE

UpsertFixed == UNCHANGED << local, disk, walk, landing, run, SIMULATE >>

\* PAGE_CACHE.get_page(title) before the updates, once for a title
LookupOp ==
    /\ pc = "lookups"
    /\ \E title \in {"R", "A"} :
          /\ \A i \in 1 .. Len(calls) : calls[i].title # title
          /\ LET r == get_page(Cur, title)
             IN  /\ Commit(r.s)
                 /\ ret' = [op |-> "get_page", title |-> title,
                            found |-> r.page # NoPage]
    /\ pc' = pc
    /\ UpsertFixed

\* PAGE_API.update_page(page_id, title, body, version, ancestors, filepath)
\* with the id and version of a page of the space, as create_or_update_page
\* and __update_page_refs_only read them, and the page's title or one that
\* is free in the space
UpdatePageOp ==
    /\ pc \in {"lookups", "updated"}
    /\ \E page_id \in DOMAIN pages, filepath \in DOMAIN local,
          ancestors \in {Home, ANCESTOR} :
          \E title \in {pages[page_id].title} \cup
                        {n \in {"N"} : RemoteFind(Cur, n) = {}} :
             LET body == Render(filepath)
                 r == update_page(Cur, page_id, title, body,
                                  pages[page_id].version, ancestors, filepath)
             IN  /\ Commit(r.s)
                 /\ ret' = [op |-> "update_page", page_id |-> page_id,
                            title |-> title, body |-> body,
                            ancestors |-> ancestors, filepath |-> filepath,
                            val |-> r.ret]
                 /\ pc' = IF r.s.failed THEN "dead"
                          ELSE IF pc = "lookups" THEN "updated" ELSE "twice"
    /\ UpsertFixed

NextUpsert ==
    \/ LookupOp
    \/ UpdatePageOp

SpecUpsert == InitUpsert /\ [][NextUpsert]_vars

----------------------------------------------------------------------------
(* Claims about update_page, checked under SpecUpsert *)

\* the step issued a page-update write
WroteNow ==
    \E i \in (Len(calls) + 1) .. Len(calls') : calls'[i].op = "update"

\* C5: a call of update_page issues a page-update write exactly when the
\* page cache returns no record for the title or the record's title, body or
\* ancestor differs from the title, the post-processed body and the ancestor
\* of the call; when it issues none, the cache entry is left as it was and the
\* call returns the page id it was given.
C5_WriteIffTripleDiffers ==
    [][ (pc \in {"lookups", "updated"} /\ ret'.op = "update_page")
        => LET body == add_images(Cur, ret'.page_id, ret'.body,
                                  ret'.filepath).html
               record == get_page(Cur, ret'.title).page
               identical == /\ record # NoPage
                            /\ record.title = ret'.title
                            /\ record.body = body
                            /\ record.ancestor = ret'.ancestors
           IN  /\ WroteNow <=> ~identical
               /\ identical => /\ ret'.val = ret'.page_id
                               /\ ret'.title \in DOMAIN cache'
                               /\ cache'[ret'.title] = record
                               /\ pages' = pages
      ]_vars

\* the second of two updates of a page with an image found nothing to write:
\* one write in all, and the record read after it still in the cache
C5_Witness ==
    /\ pc = "twice"
    /\ ret.op = "update_page" /\ ret.filepath = "f1"
    /\ Cardinality({ i \in 1 .. Len(calls) : calls[i].op = "update" }) = 1
    /\ ret.title \in DOMAIN cache
    /\ cache[ret.title].version = pages[ret.page_id].version
    /\ cache[ret.title].body.imgs # Render("f1").imgs


----------------------------------------------------------------------------
(* Claims about the titles of a run, checked under Spec *)

\* the remote pages titled as the file f is
PagesOf(f) == RemoteFind(Cur, titleCache[f])

\* C8: within a run the files that have a title have pairwise distinct
\* titles, a file keeps the title it was given, and a title is given only if
\* no remote page lacking the ownership label carries it at that moment.
\* Hence the space never holds two pages of one title, and once the folder is
\* walked every document has one page of its own, distinct from the others'.
C8_TitlesDistinctStableOwned ==
    /\ [] /\ \A f, g \in DOMAIN titleCache :
                f # g => titleCache[f] # titleCache[g]
          /\ DistinctTitles(pages)
          /\ pc \in {"retry", "trash", "done"}
                => /\ \A f \in DOMAIN local :
                         Cardinality(PagesOf(f)) = 1 /\ PagesOf(f) \subseteq ActiveSet
                   /\ \A f, g \in DOMAIN local :
                         f # g => PagesOf(f) \cap PagesOf(g) = {}
    /\ [][ run' = run
           => /\ \A f \in DOMAIN titleCache :
                    f \in DOMAIN titleCache' /\ titleCache'[f] = titleCache[f]
              /\ \A f \in DOMAIN titleCache' \ DOMAIN titleCache :
                    ~UnownedRemote(titleCache'[f])
         ]_vars

\* a finished run in which two documents of base title A met an unowned
\* remote page titled A
C8_Witness ==
    /\ pc = "done"
    /\ UnownedRemote("A")
    /\ titleCache["f1"] = "A (1)"
    /\ titleCache["f2"] = "A (2)"
    /\ PagesOf("f1") # PagesOf("f2")

----------------------------------------------------------------------------
(* The run in dry-run mode: SIMULATE is set.  The walk renders every file    *)
(* and writes nothing, the landing page is [], so no tracked page is ever     *)
(* marked active and the trash decision is always negative.                  *)

InitDry ==
    /\ local \in RunLocals
    /\ disk = ("a/x.png" :> 7)
    /\ pages \in PreSpaces
    /\ atts = << >>
    /\ nextId = 2 + MaxPre
    /\ FreshProcess
    /\ ret = [op |-> "none"]
    /\ pc = "track"
    /\ walk = 0
    /\ landing = 0
    /\ run = 1
    /\ SIMULATE = TRUE

NextDry ==
    \/ Track
    \/ UploadLanding
    \/ UploadFile
    \/ Retry
    \/ NoTrash

SpecDry == InitDry /\ [][NextDry]_vars

\* the positions, in the history, of the calls that change the remote store:
\* page create, page update, label attach, attachment upload, hash-property
\* write, relocation
RemoteWrites ==
    { i \in 1 .. Len(calls) :
        calls[i].op \in {"create", "update", "label", "upload", "put_hash",
                         "move"} }

\* C11: in dry-run mode the run issues no mutating remote call, neither in
\* the folder walk nor in the reference retry pass nor in trimming: the
\* history holds reads only.
C11_DryRunOnlyReads ==
    SIMULATE => RemoteWrites = {}

----------------------------------------------------------------------------
(* Deferred reference resolution, checked under Spec.  f1 is visited before  *)
(* f2; the canonical URL of a page is its link, the page's id in the model.  *)

\* the remote page that holds document f: the page with the title given to f
PageOf(f) == CHOOSE i \in PagesOf(f) : \A j \in PagesOf(f) : i <= j

\* the folder walk and the retry pass are over and the process is alive
AfterRetry == pc \in {"trash", "done"}

\* document x links to document y
LinksTo(x, y) == y \in SeqSet(local[x].links)

\* in the remote body of x every link to y holds the canonical URL of y's page
ResolvedIn(x, y) ==
    /\ PagesOf(x) # {} /\ PagesOf(y) # {}
    /\ \A k \in 1 .. Len(local[x].links) :
          local[x].links[k] = y =>
              pages[PageOf(x)].body.links[k] = [rel |-> "", url |-> PageOf(y)]

\* C12: one hop.  f1 links to f2 and f2 is synchronized later in the run than
\* f1: after the folder walk and the single retry pass the remote body of f1
\* holds the canonical URL of f2's page in place of the relative link.
C12_OneHopResolved ==
    (AfterRetry /\ LinksTo("f1", "f2")) => ResolvedIn("f1", "f2")

----------------------------------------------------------------------------
(* A chain of references: README links to f1 (and perhaps to f2 as well), f1  *)
(* links to f2, and the walk visits README, f1, f2 in this order, so each     *)
(* target is visited after the documents that lead to it.                     *)

ChainLocals ==
    { ("f0" :> [base |-> "R", links |-> l0, imgs |-> << >>, macro |-> TRUE])
      @@ ("f1" :> [base |-> "A", links |-> << "f2" >>, imgs |-> i1,
                   macro |-> FALSE])
      @@ ("f2" :> [base |-> b2, links |-> << >>, imgs |-> << >>,
                   macro |-> FALSE]) :
        l0 \in {<< "f1" >>, << "f1", "f2" >>},
        i1 \in {<< >>, << "a/x.png" >>}, b2 \in {"A", "B"} }

InitChain ==
    /\ local \in ChainLocals
    /\ disk = ("a/x.png" :> 7)
    /\ pages \in PreSpaces
    /\ atts = << >>
    /\ nextId = 2 + MaxPre
    /\ FreshProcess
    /\ ret = [op |-> "none"]
    /\ pc = "track"
    /\ walk = 0
    /\ landing = 0
    /\ run = 1
    /\ SIMULATE = FALSE

SpecChain == InitChain /\ [][Next]_vars

\* the links of the remote body of x that are still relative links
RelativeLinks(x) ==
    { k \in 1 .. Len(pages[PageOf(x)].body.links) :
        pages[PageOf(x)].body.links[k].rel # "" }

\* C13 as stated: after the single retry pass the chain README -> f1 -> f2
\* remains unresolved, at least one of its links is still a relative link in
\* a remote body.
C13_AsStated ==
    AfterRetry => (RelativeLinks("f0") # {} \/ RelativeLinks("f1") # {})

\* C13: two hops.  README links to f1, f1 links to f2 and f2 is visited after
\* both: after the folder walk and the single retry pass no link of the chain
\* is still a relative link in a remote body.
C13_ChainResolved ==
    AfterRetry =>
        /\ PagesOf("f0") # {} /\ PagesOf("f1") # {}
        /\ RelativeLinks("f0") = {} /\ RelativeLinks("f1") = {}

\* a first run in which both links were deferred, README and f1 were queued
\* and rewritten by the retry pass, and each link holds the URL of its target
C13_Witness ==
    /\ run = 1 /\ pc = "done"
    /\ again = << "f0", "f1" >>
    /\ \E i, j \in 1 .. Len(calls) :
          /\ i < j
          /\ calls[i].op = "update" /\ calls[i].at = "retry"
          /\ calls[i].id = PageOf("f0")
          /\ calls[j].op = "update" /\ calls[j].at = "retry"
          /\ calls[j].id = PageOf("f1")
    /\ pages[PageOf("f0")].body.links = << [rel |-> "", url |-> PageOf("f1")] >>
    /\ pages[PageOf("f1")].body.links = << [rel |-> "", url |-> PageOf("f2")] >>

----------------------------------------------------------------------------
(* The resolution queue, checked under SpecChain *)

\* the files the retry pass has taken up among the calls c, one entry per
\* time a file is re-rendered and handed to update_page
Retried(c) ==
    [ k \in { i \in 1 .. Len(c) : c[i].op = "refs_only" } |-> c[k].title ]

\* how often file f was taken up among the calls c
TimesRetried(c, f) == Cardinality({ k \in DOMAIN Retried(c) : Retried(c)[k] = f })

\* C14: the queue holds each referencing file at most once, however many
\* unresolved links the file has and however often it is rendered; the retry
\* pass takes up every queued file exactly once and no other file, and the
\* queue is the same after the pass as before it.
C14_QueueOnceRetriedOnce ==
    /\ [](\A i, j \in 1 .. Len(again) : again[i] = again[j] => i = j)
    /\ [][ pc = "retry" =>
             /\ again' = again
             /\ \A f \in DOMAIN local :
                   TimesRetried(calls', f) = IF f \in SeqSet(again) THEN 1 ELSE 0
         ]_vars

\* the retry pass is over; README, with two links that could not be resolved
\* when it was rendered, and f1 are queued, and each was taken up once
C14_Witness ==
    /\ AfterRetry
    /\ Len(local["f0"].links) = 2
    /\ again = << "f0", "f1" >>
    /\ TimesRetried(calls, "f0") = 1 /\ TimesRetried(calls, "f1") = 1
    /\ \E i, j \in 1 .. Len(calls) :
          /\ i < j
          /\ calls[i].op = "get_page" /\ calls[i].at = "landing"
          /\ calls[i].title = local["f1"].base
          /\ calls[j].op = "get_page" /\ calls[j].at = "landing"
          /\ calls[j].title = local["f2"].base
          /\ local["f1"].base # local["f2"].base

----------------------------------------------------------------------------
(* Links whose target cannot be resolved.  f1 links to f2 (visited later), to *)
(* "ext" (a document that exists locally but is not part of the walk, so it   *)
(* is never synchronized) or to "gone" (no such file).                        *)

RefsLocals ==
    { ("f0" :> [base |-> "R", links |-> << >>, imgs |-> << >>, macro |-> TRUE])
      @@ ("f1" :> [base |-> "A", links |-> << t1 >>, imgs |-> << >>,
                   macro |-> FALSE])
      @@ ("f2" :> [base |-> b2, links |-> << >>, imgs |-> << >>,
                   macro |-> FALSE])
      @@ ("ext" :> [base |-> "E", links |-> << >>, imgs |-> << >>,
                    macro |-> FALSE]) :
        t1 \in {"f2", "ext", "gone"}, b2 \in {"A", "B"} }

InitRefs ==
    /\ local \in RefsLocals
    /\ disk = ("a/x.png" :> 7)
    /\ pages \in PreSpaces
    /\ atts = << >>
    /\ nextId = 2 + MaxPre
    /\ FreshProcess
    /\ ret = [op |-> "none"]
    /\ pc = "track"
    /\ walk = 0
    /\ landing = 0
    /\ run = 1
    /\ SIMULATE = FALSE

SpecRefs == InitRefs /\ [][Next]_vars

\* C15: an unresolved local reference is never an error.  Whether the target
\* of f1's link is synchronized later, never synchronized, or not present
\* locally, neither the first rendering nor the retry pass aborts the run,
\* and a link whose target has no page is left as it was.
C15_UnresolvedNeverFatal ==
    /\ ~failed /\ pc # "dead"
    /\ (AfterRetry /\ local["f1"].links[1] \in {"ext", "gone"})
          => RelativeLinks("f1") = {1}

----------------------------------------------------------------------------
(* The snapshot, checked under SpecTracker.  The pages of the tracker's      *)
(* space form a forest: every page has one parent, with a smaller id.        *)

\* page p lies below page c in the hierarchy
RECURSIVE IsUnder(_, _)
IsUnder(p, c) ==
    /\ p \in DOMAIN pages
    /\ \/ pages[p].parent = c
       \/ IsUnder(pages[p].parent, c)

\* the transitive descendants of page c
SubtreeOf(c) == { p \in DOMAIN pages : IsUnder(p, c) }

\* C16: track_child_pages on a tree-shaped hierarchy leaves a snapshot whose
\* keys are exactly the direct children of the configured root and whose
\* value for a key c lists exactly the transitive descendants of c, each
\* once: neither c itself nor a page outside c's subtree is listed.
C16_SnapshotIsSubtrees ==
    [][ (pc = "track" /\ ret'.op = "track") =>
          /\ DOMAIN orig' = { p \in DOMAIN pages : pages[p].parent = ANCESTOR }
          /\ SeqSet(origOrder') = DOMAIN orig'
          /\ \A c \in DOMAIN orig' :
                /\ SeqSet(orig'[c]) = SubtreeOf(c)
                /\ Len(orig'[c]) = Cardinality(SubtreeOf(c))
      ]_vars

\* a snapshot was taken of a hierarchy in which a top-level page has a child
\* and a grandchild, both listed, while a page outside the root and the pages
\* of another top-level key are not listed for it
C16_Witness ==
    /\ pc = "marking" /\ ret.op = "track"
    /\ \E c, d, e, o \in TreeIds :
          /\ pages[c].parent = ANCESTOR
          /\ pages[d].parent = c
          /\ pages[e].parent = d
          /\ pages[o].parent = Home
          /\ orig[c] = << d, e >>
          /\ o \notin DOMAIN orig
    /\ orig[TrashId] = << >>

----------------------------------------------------------------------------
(* The snapshot during a run, checked under Spec *)

\* every page the snapshot lists under some key
Listed == UNION { SeqSet(orig[c]) : c \in DOMAIN orig }

\* C17: within a run the snapshot is written by track_child_pages only.  The
\* folder walk (page create, page update, mark_page_active), the retry pass
\* and the trash step (trash_needed, create_trash, trim_child_pages and its
\* relocations) leave it as it was, and the pages a trimming relocates are
\* pages the snapshot lists.
C17_SnapshotWrittenByTrackOnly ==
    [][ (pc # "track" /\ run' = run) =>
          /\ orig' = orig
          /\ origOrder' = origOrder
          /\ RelocatedIn(calls') \subseteq Listed
      ]_vars

\* a finished run in which the only descendant d of a top-level page c was
\* rewritten by the folder walk and now lies elsewhere: the snapshot still
\* lists d under c
C17_Witness ==
    /\ pc = "done"
    /\ \E c \in DOMAIN orig :
       \E d \in DOMAIN pages :
          /\ orig[c] = << d >>
          /\ pages[d].parent # c
          /\ d \notin RelocatedIn(calls)
          /\ \E i \in 1 .. Len(calls) :
                calls[i].op = "update" /\ calls[i].at = "files" /\ calls[i].id = d

----------------------------------------------------------------------------
(* The active list, checked under SpecTracker *)

\* C18: whatever the tracker does, ActiveSet only grows: every step keeps the
\* entries it had, in place, and the list never holds an id twice; marking
\* an id that is already present leaves the list as it was.
C18_ActiveOnlyGrows ==
    /\ [](\A i, j \in 1 .. Len(active) : active[i] = active[j] => i = j)
    /\ [][ /\ Len(active') >= Len(active)
           /\ SubSeq(active', 1, Len(active)) = active
           /\ (ret'.op = "mark" /\ ret'.page \in SeqSet(active))
                 => active' = active
         ]_vars

\* a page that is not the last one of a list of three was marked again, and
\* the list is still the three
C18_Witness ==
    /\ ret.op = "mark"
    /\ Len(active) = 3
    /\ ret.page = active[1]
    /\ Cardinality(SeqSet(active)) = 3

----------------------------------------------------------------------------
(* The active list during a run, checked under Spec *)

\* the ids of the pages created by this run
CreatedThisRun ==
    { calls[i].id : i \in { k \in 1 .. Len(calls) : calls[k].op = "create" } }

\* C19: in every state of a run every id in ActiveSet is an id the snapshot
\* records, as a top-level key or as a listed descendant, or the id of a page
\* created during this run.
C19_ActiveTrackedOrCreated ==
    ActiveSet \subseteq (DOMAIN orig \cup Listed \cup CreatedThisRun)

----------------------------------------------------------------------------
(* create_or_update_page on its own: a document of the folder is upserted    *)
(* under a title, twice.  The documents hold no image, an image file, an      *)
(* image with an absolute URL, or an image whose file is missing.             *)

CreateLocals ==
    ("f1" :> [base |-> "A", links |-> << >>, imgs |-> << >>, macro |-> FALSE])
    @@ ("f2" :> [base |-> "A", links |-> << >>, imgs |-> << "a/x.png" >>,
                 macro |-> TRUE])
    @@ ("f3" :> [base |-> "A", links |-> << >>, imgs |-> << "http://h/x.png" >>,
                 macro |-> FALSE])
    @@ ("f4" :> [base |-> "A", links |-> << >>, imgs |-> << "b/x.png" >>,
                 macro |-> FALSE])

InitCreate ==
    /\ local = CreateLocals
    /\ disk = ("a/x.png" :> 7)
    /\ pages \in UpsertSpaces
    /\ atts = << >>
    /\ nextId = 2 + MaxPre
    /\ FreshProcess
    /\ ret = [op |-> "none"]
    /\ pc = "start"
    /\ walk = 0
    /\ landing = 0
    /\ run = 1
    /\ SIMULATE = FALSE

\* PAGE_API.create_or_update_page(title, body, ancestors, filepath) with the
\* rendered body of a document
CreateOrUpdateOp ==
    /\ pc \in {"start", "once"}
    /\ \E title \in {"A", "B"}, filepath \in DOMAIN local,
          ancestors \in {Home, ANCESTOR} :
       \E body \in {Render(filepath)} :
       \E r \in {create_or_update_page(Cur, title, body, ancestors, filepath)} :
          /\ Commit(r.s)
          /\ ret' = [op |-> "create_or_update", title |-> title,
                     body |-> body, ancestors |-> ancestors,
                     filepath |-> filepath, val |-> r.ret]
          /\ pc' = IF r.s.failed THEN "dead"
                   ELSE IF pc = "start" THEN "once" ELSE "twice"
    /\ UpsertFixed

NextCreate == CreateOrUpdateOp

SpecCreate == InitCreate /\ [][NextCreate]_vars

\* the remote calls the step issued, in order
NewCalls == SubSeq(calls', Len(calls) + 1, Len(calls'))

\* the calls of the step after the first three are those of update_page for
\* the new page n: they concern n or read the title; wrote tells whether a
\* page-update write for n, with version 2, is among them
FollowUp(n, title, wrote) ==
    /\ \A i \in 4 .. Len(NewCalls) :
          \/ NewCalls[i].id = n
          \/ NewCalls[i].op = "get_page" /\ NewCalls[i].title = title
    /\ \E i \in 4 .. Len(NewCalls) :
          NewCalls[i].op = "get_page" /\ NewCalls[i].title = title
    /\ wrote <=> \E i \in 4 .. Len(NewCalls) :
                    /\ NewCalls[i].op = "update" /\ NewCalls[i].id = n
                    /\ NewCalls[i].ver = 2 /\ NewCalls[i].ok

\* what create_or_update_page does for a title get_page has no record of:
\* the lookup, one create, one label attach for the new id n, and a call of
\* update_page exactly if the body holds an image; wrote tells whether that
\* call writes the page
Creates(title, body, ancestors, filepath, n, wrote) ==
    /\ Len(NewCalls) >= 3
    /\ NewCalls[1].op = "get_page" /\ NewCalls[1].title = title
    /\ NewCalls[2].op = "create" /\ NewCalls[2].id = n
    /\ NewCalls[2].title = title /\ NewCalls[2].ok
    /\ NewCalls[3].op = "label" /\ NewCalls[3].id = n
    /\ NewCalls[3].title = OwnLabel /\ NewCalls[3].ok
    /\ \A i \in 4 .. Len(NewCalls) : NewCalls[i].op \notin {"create", "label"}
    /\ ret'.val = n
    /\ n \in DOMAIN pages' /\ n \notin DOMAIN pages
    /\ pages'[n].title = title
    /\ pages'[n].parent = ancestors
    /\ pages'[n].labels = << OwnLabel >>
    /\ HasImg(body) <=> Len(NewCalls) > 3
    /\ HasImg(body) => FollowUp(n, title, wrote)
    /\ StripServerAttrs(pages'[n].body) =
          IF HasImg(body) THEN add_images(Cur, n, body, filepath).html ELSE body

\* what create_or_update_page does for a title get_page has a record of: no
\* create, no label attach, and what update_page does with the record's id
\* and version
Delegates(title, body, ancestors, filepath) ==
    /\ \A i \in 1 .. Len(NewCalls) : NewCalls[i].op \notin {"create", "label"}
    /\ \E g \in {get_page(Cur, title)} :
       \E u \in {update_page(g.s, g.page.id, title, body, g.page.version,
                             ancestors, filepath)} :
          /\ ret'.val = u.ret
          /\ pages' = u.s.pages
          /\ calls' = u.s.calls
          /\ cache' = u.s.cache

----------------------------------------------------------------------------
(* get_page against a space that gains pages between the lookups.           *)

\* PAGE_CACHE.get_page(title); the caller keeps what it was handed
LookupGetOp ==
    /\ pc = "cache" /\ Len(calls) < MaxReads
    /\ \E title \in CacheTitles :
          \E r \in {get_page(Cur, title)} :
              /\ Commit(r.s)
              /\ ret' = [op |-> "get_page", title |-> title, page |-> r.page]
    /\ CacheFixed

\* a page is created in the space under a title no page has
LookupCreateOp ==
    /\ pc = "cache" /\ Len(calls) < MaxReads
    /\ \E title \in CacheTitles :
          /\ RemoteFind(Cur, title) = {}
          /\ Commit(RemoteCreate(Cur, title, EmptyBody, ANCESTOR))
          /\ ret' = [op |-> "create", title |-> title]
    /\ CacheFixed

NextLookup ==
    \/ LookupGetOp
    \/ LookupCreateOp
    \/ ForgetPageOp

SpecLookup == InitCache /\ [][NextLookup]_vars

\* the record get_page builds from the page the store holds under a title
RecordOf(title) ==
    LET i == CHOOSE i \in RemoteFind(Cur, title) :
                 \A j \in RemoteFind(Cur, title) : i <= j
        p == pages[i]
    IN  [id |-> i, version |-> p.version, link |-> i, ancestor |-> p.parent,
         labels |-> p.labels, body |-> StripServerAttrs(p.body),
         title |-> p.title]

\* C21: a get_page(title) step with a record cached under the title returns
\* that record, asks the store nothing and leaves the cache alone; with none
\* cached it asks the store exactly once, and then either a page matches, and
\* its record is returned and cached under the title, or none matches, and
\* it returns absent and caches nothing.
C21_GetPageCachedOrOneQuery ==
    [][ret'.op = "get_page" =>
         LET title == ret'.title
         IN  IF title \in DOMAIN cache
             THEN /\ ret'.page = cache[title]
                  /\ calls' = calls
                  /\ cache' = cache
             ELSE /\ Len(calls') = Len(calls) + 1
                  /\ SubSeq(calls', 1, Len(calls)) = calls
                  /\ calls'[Len(calls')].op = "get_page"
                  /\ calls'[Len(calls')].title = title
                  /\ IF RemoteFind(Cur, title) # {}
                     THEN /\ ret'.page = RecordOf(title)
                          /\ cache' = Put(cache, title, ret'.page)
                     ELSE /\ ret'.page = NoPage
                          /\ cache' = cache]_vars

\* a lookup found nothing, the page was created, and the next lookup of the
\* title has just found it
C21_Witness ==
    /\ ret.op = "get_page" /\ ret.page # NoPage
    /\ Len(calls) = 3
    /\ calls[1].op = "get_page" /\ calls[1].title = ret.title
    /\ calls[2].op = "create" /\ calls[2].title = ret.title
    /\ calls[3].op = "get_page" /\ calls[3].title = ret.title


----------------------------------------------------------------------------
(* common.py: the requests of the program, answered by a store that may     *)
(* refuse them.                                                              *)

\* retries = 2 (common.py 50 and 96)
Retries == 2

\* the status codes of the answers: done, not authenticated, conflict
Statuses == {200, 401, 409}

\* what the store answers to the first, second and third attempt of a call
Answers == [1 .. (Retries + 1) -> Statuses]

\* the store answers every attempt well
AllOk == [k \in 1 .. (Retries + 1) |-> 200]

\* one request on the wire: attempt number try of the call c, answered status
Attempt(s, c, try, status) ==
    [s EXCEPT !.calls = Append(@, [op |-> c.op, id |-> c.id, title |-> c.title,
                                   ver |-> c.ver, cur |-> c.cur,
                                   ok |-> status < 400, at |-> pc,
                                   try |-> try, status |-> status,
                                   body |-> c.body])]

\* a loop that never tries again
Received_first_only(answers, k, retries) == << answers[k] >>

\* "while retries and response.status_code == 401": the statuses received
\* from the k-th attempt on, with this many retries left
RECURSIVE Received(_, _, _)
Received(answers, k, retries) ==
    IF retries > 0 /\ answers[k] = 401
    THEN << answers[k] >> \o Received(answers, k + 1, retries - 1)
    ELSE << answers[k] >>

\* the attempts of one call on the wire, from the k-th on
RECURSIVE Attempts(_, _, _, _)
Attempts(s, c, got, k) ==
    IF k > Len(got) THEN s
    ELSE Attempts(Attempt(s, c, k, got[k]), c, got, k + 1)

\* response.raise_for_status(): 4xx and 5xx raise
Raises(status) == status >= 400

\* _make_request that returns whatever it received
make_request_unchecked(s, c, answers, check_response) ==
    Only({ [s |-> Attempts(s, c, got, 1), status |-> got[Len(got)],
            tries |-> Len(got)]
           : got \in {Received(answers, 1, Retries)} })

\* _make_request, behind make_request_get, make_request_put and
\* make_request_post
make_request(s, c, answers, check_response) ==
    Only({ Only({
        [s |-> IF check_response /\ Raises(got[Len(got)]) THEN Die(s1) ELSE s1,
         status |-> got[Len(got)], tries |-> Len(got)]
        : s1 \in {Attempts(s, c, got, 1)} })
        : got \in {Received(answers, 1, Retries)} })

\* what is left to read of a file that has been read to its end
NoBytes == 0

\* session.post(url, files=file_to_upload), from the k-th attempt on.
\* file_to_upload holds the file object opened once by the caller
\* (page_api.py 280): the first post reads it to its end to build the
\* multipart body, and a later post of the same object reads what is left.
RECURSIVE UploadAttempts(_, _, _, _)
UploadAttempts(s, c, got, k) ==
    IF k > Len(got) THEN s
    ELSE UploadAttempts(
             Attempt(s, [c EXCEPT !.body = IF k = 1 THEN @ ELSE NoBytes],
                     k, got[k]),
             c, got, k + 1)

\* make_request_upload: the same loop, and the status is always checked.
\* stored is what the store holds of the file when the last post is accepted.
make_request_upload(s, c, answers) ==
    Only({ Only({
        [s |-> IF Raises(got[Len(got)]) THEN Die(s1) ELSE s1,
         status |-> got[Len(got)], tries |-> Len(got),
         stored |-> IF Len(got) = 1 THEN c.body ELSE NoBytes]
        : s1 \in {UploadAttempts(s, c, got, 1)} })
        : got \in {Received(answers, 1, Retries)} })

\* the places a request is made from: the function it goes through and the
\* check_response it passes
CallSites ==
    { [op |-> "get_page", via |-> "get", check |-> TRUE],
      [op |-> "create", via |-> "post", check |-> TRUE],
      [op |-> "update", via |-> "put", check |-> TRUE],
      [op |-> "label", via |-> "post", check |-> TRUE],
      [op |-> "get_attachment", via |-> "get", check |-> TRUE],
      [op |-> "upload", via |-> "upload", check |-> TRUE],
      [op |-> "get_hash", via |-> "get", check |-> FALSE],
      [op |-> "put_hash", via |-> "put", check |-> TRUE],
      [op |-> "children", via |-> "get", check |-> TRUE],
      [op |-> "get_by_id", via |-> "get", check |-> TRUE],
      [op |-> "move", via |-> "put", check |-> TRUE] }

\* the most requests on the wire before the last call starts
MaxSent == 2

InitRequest ==
    /\ local = << >>
    /\ disk = << >>
    /\ pages = << >>
    /\ atts = << >>
    /\ nextId = 2
    /\ FreshProcess
    /\ ret = [op |-> "none"]
    /\ pc = "net"
    /\ walk = 0
    /\ landing = 0
    /\ run = 1
    /\ SIMULATE = FALSE

\* the next remote call of the run, from any call site, answered in any way;
\* a run that has aborted makes none
RequestOp ==
    /\ pc = "net" /\ ~failed /\ Len(calls) < MaxSent
    /\ \E site \in CallSites, answers \in Answers :
          LET c == [op |-> site.op, id |-> 1, title |-> "T", ver |-> 0,
                    cur |-> 0, body |-> 7]
          IN  \E r \in { IF site.via = "upload"
                         THEN make_request_upload(Cur, c, answers)
                         ELSE make_request(Cur, c, answers, site.check) } :
                  /\ Commit(r.s)
                  /\ ret' = [op |-> site.op, answers |-> answers,
                             status |-> r.status, tries |-> r.tries,
                             before |-> Len(calls)]
    /\ UNCHANGED << pc, local, disk, walk, landing, run, SIMULATE >>

NextRequest == RequestOp

SpecRequest == InitRequest /\ [][NextRequest]_vars

\* the requests on the wire that belong to the call that has just returned
LastCall == SubSeq(calls, ret.before + 1, Len(calls))

\* C22: the call that has just returned was put on the wire between one and
\* three times, each time as the same request (method, URL, arguments and
\* the body that is sent); every attempt but the last was
\* answered 401, the last one either was not or was the third; the attempts
\* were answered as the store answers successive attempts, the last answer is
\* the result of the call, and a call whose first answer is not 401 went out
\* exactly once.
C22_AsStated ==
    ret.op # "none" =>
        LET n == Len(LastCall)
        IN  /\ n = ret.tries
            /\ n \in 1 .. 3
            /\ \A k \in 1 .. n :
                  /\ LastCall[k].op = ret.op
                  /\ LastCall[k].id = LastCall[1].id
                  /\ LastCall[k].title = LastCall[1].title
                  /\ LastCall[k].ver = LastCall[1].ver
                  /\ LastCall[k].body = LastCall[1].body
                  /\ LastCall[k].try = k
                  /\ LastCall[k].status = ret.answers[k]
            /\ \A k \in 1 .. (n - 1) : LastCall[k].status = 401
            /\ (LastCall[n].status # 401 \/ n = 3)
            /\ ret.status = LastCall[n].status
            /\ (ret.answers[1] # 401 => n = 1)
            /\ (ret.answers[1] = 401 => n >= 2)
            /\ (ret.answers[1] = 401 /\ ret.answers[2] = 401 => n = 3)

\* the same without the body: how often a call is sent, and which answer
\* is its result
RetryCounts ==
    ret.op # "none" =>
        LET n == Len(LastCall)
        IN  /\ n = ret.tries
            /\ n \in 1 .. 3
            /\ \A k \in 1 .. n : /\ LastCall[k].op = ret.op
                                  /\ LastCall[k].status = ret.answers[k]
            /\ \A k \in 1 .. (n - 1) : LastCall[k].status = 401
            /\ (LastCall[n].status # 401 \/ n = 3)
            /\ ret.status = LastCall[n].status
            /\ (ret.answers[1] # 401 => n = 1)

\* every kind of call but the upload repeats its request unchanged
RetryIdenticalButUpload ==
    ret.op \notin {"none", "upload"} =>
        \A k \in 1 .. Len(LastCall) : LastCall[k].body = LastCall[1].body

\* an upload was answered 401 and then 200, which is its result
C22_Witness ==
    /\ ret.op = "upload" /\ ret.tries = 2 /\ ret.status = 200
    /\ ~failed
    /\ LastCall[1].status = 401

\* the kinds of call C24 names: page read, create, update, label,
\* list-children, relocation, upload
NamedKinds ==
    {"get_page", "create", "update", "label", "children", "get_by_id", "move",
     "upload"}

\* C24: a request of one of the named kinds that is answered with a failure
\* other than 401 is the last request of the run: it is not tried again, the
\* run has aborted, and nothing follows it on the wire.
C24_OtherFailureFatal ==
    \A i \in 1 .. Len(calls) :
        (calls[i].op \in NamedKinds /\ Raises(calls[i].status)
                                    /\ calls[i].status # 401)
            => (failed /\ i = Len(calls))

\* a relocation was answered 401 and then with a conflict, after an earlier
\* call went through: the run has aborted
C24_Witness ==
    /\ failed /\ Len(calls) = 3
    /\ calls[1].op = "get_by_id" /\ calls[1].status = 200
    /\ calls[2].op = "move" /\ calls[2].status = 401
    /\ calls[3].op = "move" /\ calls[3].status = 409


----------------------------------------------------------------------------
(* __upload_attachment called twice, against a store that may refuse a      *)
(* request, for a file that may be edited and a process that may be started  *)
(* again between the two calls.                                              *)

\* the attachment the store holds under a key, if any
NoAttachment == [data |-> -1, hash |-> NoHash, hver |-> 0]

\* __get_attachment and __upload_attachment; net holds the store's answers
\* to the attempts of each of the four requests
upload_attachment_answered(s, page_id, file, net) ==
    IF s.failed \/ IsHttp(file) \/ file \notin DOMAIN disk
    THEN [s |-> s, ret |-> FALSE]
    ELSE
    LET filename == Basename(file)
        key == << page_id, filename >>
        c == [op |-> "", id |-> page_id, title |-> filename, ver |-> 0,
              cur |-> 0, body |-> NoBytes]
    IN
    Only({ Only({
    LET sha == h.ret
        has == key \in DOMAIN g.s.atts
        old == IF has THEN g.s.atts[key] ELSE NoAttachment
    IN  IF g.s.failed THEN [s |-> g.s, ret |-> FALSE]
        ELSE IF has /\ sha = old.hash THEN [s |-> g.s, ret |-> TRUE]
        ELSE
        Only({
        IF u.s.failed THEN [s |-> u.s, ret |-> FALSE]
        ELSE
        Only({ Only({
        LET \* the store answers 404 when the attachment has no hash property
            read == IF r.status = 200 /\ old.hver = 0 THEN 404 ELSE r.status
            version == IF read = 200 THEN old.hver ELSE 0
        IN
        Only({
            IF p.s.failed THEN [s |-> p.s, ret |-> FALSE]
            ELSE [s |-> [p.s EXCEPT !.atts[key] =
                             [@ EXCEPT !.hash = sha, !.hver = version + 1]],
                  ret |-> TRUE]
            : p \in {make_request(
                        r.s,
                        [c EXCEPT !.op = "put_hash", !.ver = version + 1,
                                  !.cur = old.hver, !.body = sha],
                        \* the store refuses a version that is not the next
                        IF version = old.hver THEN net.put_hash
                        ELSE [k \in DOMAIN net.put_hash |->
                                 IF net.put_hash[k] = 200 THEN 409
                                 ELSE net.put_hash[k]],
                        TRUE)} })
        : r \in {make_request(s2, [c EXCEPT !.op = "get_hash",
                                             !.cur = old.hver],
                              net.get_hash, FALSE)} })
        : s2 \in {[u.s EXCEPT !.atts = Put(@, key,
                                    [old EXCEPT !.data = u.stored])]} })
        : u \in {make_request_upload(
                     g.s, [c EXCEPT !.op = "upload", !.body = disk[file]],
                     net.upload)} })
        : g \in {make_request(h.s, [c EXCEPT !.op = "get_attachment"],
                              net.get_attachment, TRUE)} })
        : h \in {get_sha_hash(s, file)} })

\* the ways the store answers the attempts of one request here: at once, after
\* one 401, never (401 every time), or with a conflict
AttachAnswers ==
    { << 200, 200, 200 >>, << 401, 200, 200 >>, << 401, 401, 401 >>,
      << 409, 200, 200 >> }

Nets ==
    [get_attachment : AttachAnswers, upload : AttachAnswers,
     get_hash : AttachAnswers, put_hash : AttachAnswers]

AttachFile == "a/x.png"

AttachPages == {1, 2}

\* what the store holds for page 1 before the first call: nothing, the file
\* as it is, another version of it, or the file without a hash property
AttachStores ==
    { << >>,
      << 1, "x.png" >> :> [data |-> 7, hash |-> Sha256(7), hver |-> 1],
      << 1, "x.png" >> :> [data |-> 9, hash |-> Sha256(9), hver |-> 2],
      << 1, "x.png" >> :> [data |-> 7, hash |-> NoHash, hver |-> 0] }

InitAttach ==
    /\ local = << >>
    /\ disk = (AttachFile :> 7)
    /\ pages = << >>
    /\ atts \in AttachStores
    /\ nextId = 3
    /\ FreshProcess
    /\ ret = [op |-> "none", page |-> 0]
    /\ pc = "first"
    /\ walk = 0
    /\ landing = 0
    /\ run = 1
    /\ SIMULATE = FALSE

\* __upload_attachment(page_id, file, comment)
UploadAttachmentOp ==
    /\ pc \in {"first", "second"} /\ ~failed
    /\ \E page_id \in AttachPages, net \in Nets :
          \E r \in {upload_attachment_answered(Cur, page_id, AttachFile, net)} :
              /\ Commit(r.s)
              /\ ret' = [op |-> "upload_attachment", page |-> page_id,
                         prev |-> ret.page, val |-> r.ret]
    /\ pc' = IF pc = "first" THEN "second" ELSE "done"
    /\ UNCHANGED << local, disk, walk, landing, run, SIMULATE >>

\* the file's bytes change between the two calls
EditFileOp ==
    /\ pc = "second" /\ ~failed /\ disk[AttachFile] = 7
    /\ disk' = (AttachFile :> 8)
    /\ UNCHANGED << pages, atts, nextId, local, cache, again, titleCache,
                    shaCache, orig, origOrder, active, memo, calls, failed,
                    ret, pc, walk, landing, run, SIMULATE >>

\* the first call was the last of its run: the second is made by a new process
NewProcessOp ==
    /\ pc = "second" /\ ~failed /\ run = 1
    /\ run' = 2
    /\ cache' = << >>
    /\ again' = << >>
    /\ titleCache' = << >>
    /\ shaCache' = << >>
    /\ orig' = << >>
    /\ origOrder' = << >>
    /\ active' = << >>
    /\ memo' = << >>
    /\ UNCHANGED << pages, atts, nextId, local, disk, calls, failed, ret, pc,
                    walk, landing, SIMULATE >>

NextAttach ==
    \/ UploadAttachmentOp
    \/ EditFileOp
    \/ NewProcessOp

SpecAttach == InitAttach /\ [][NextAttach]_vars

\* the requests of a kind sent during the first or the second call
SentIn(stage, op) ==
    {i \in 1 .. Len(calls) : calls[i].at = stage /\ calls[i].op = op}

\* those of them the store accepted
DoneIn(stage, op) == {i \in SentIn(stage, op) : calls[i].status = 200}

\* both calls have returned, for the same page, and neither aborted the run
TwiceSamePage ==
    pc = "done" /\ ~failed /\ ret.op = "upload_attachment" /\ ret.page = ret.prev

\* C23: a request still answered 401 on its third attempt is the last request
\* of the run, whatever its kind: the run has aborted and nothing follows it.
C23_Exhausted401Fatal ==
    \A i \in 1 .. Len(calls) :
        (calls[i].try = Retries + 1 /\ calls[i].status = 401)
            => (failed /\ i = Len(calls))

\* C25: two calls for the same page and file.  With unchanged bytes the bytes
\* are transferred at most once, by the first call, and the second call only
\* reads the attachment's metadata; with bytes changed between the calls the
\* second call transfers them and writes the hash property.
C25_AsStated ==
    TwiceSamePage =>
        IF disk[AttachFile] = 7
        THEN /\ SentIn("second", "upload") = {}
             /\ SentIn("second", "put_hash") = {}
             /\ SentIn("second", "get_attachment") # {}
             /\ Cardinality(DoneIn("first", "upload")) <= 1
        ELSE /\ DoneIn("second", "upload") # {}
             /\ DoneIn("second", "put_hash") # {}

\* C25 (amended): as above, but changed bytes are transferred by the second
\* call only when it is made by a new process; in the process of the first
\* call the digest cached for the path is used, and the second call transfers
\* nothing and writes no hash property.
C25_DedupByCachedDigest ==
    TwiceSamePage =>
        IF disk[AttachFile] = 7 \/ run = 1
        THEN /\ SentIn("second", "upload") = {}
             /\ SentIn("second", "put_hash") = {}
             /\ SentIn("second", "get_attachment") # {}
             /\ Cardinality(DoneIn("first", "upload")) <= 1
        ELSE /\ DoneIn("second", "upload") # {}
             /\ DoneIn("second", "put_hash") # {}

\* the first call transferred the file, the file was edited, and the second
\* call of the same process has returned
C25_Witness ==
    /\ TwiceSamePage /\ disk[AttachFile] = 8 /\ run = 1
    /\ DoneIn("first", "upload") # {}
    /\ ret.val = TRUE

\* C26: every write of the hash property follows, within its call, a byte
\* upload the store accepted; it submits the property's current version plus
\* one (1 when there is no property), and the value it writes is the hash of
\* the bytes that upload delivered.
C26_HashWrittenAfterUpload ==
    \A i \in 1 .. Len(calls) :
        calls[i].op = "put_hash" =>
            /\ calls[i].ver = calls[i].cur + 1
            /\ \E j \in 1 .. (i - 1) :
                  /\ calls[j].op = "upload" /\ calls[j].status = 200
                  /\ calls[j].at = calls[i].at /\ calls[j].id = calls[i].id
                  /\ \A k \in (j + 1) .. (i - 1) : calls[k].op = "get_hash"
                  /\ calls[i].body = Sha256(calls[j].body)


\* for every kind of call but the read of the hash property, a third 401 is
\* the last request of the run
Exhausted401FatalButHashRead ==
    \A i \in 1 .. Len(calls) :
        (calls[i].try = Retries + 1 /\ calls[i].status = 401
                                    /\ calls[i].op # "get_hash")
            => (failed /\ i = Len(calls))


----------------------------------------------------------------------------
(* The order of a run, checked under Spec *)

\* the part of the run a request was made in
StageRank(at) ==
    CASE at = "track" -> 1
      [] at \in {"landing", "files"} -> 2
      [] at = "retry" -> 3
      [] at = "trash" -> 4
      [] OTHER -> 0

----------------------------------------------------------------------------
(* upload_folder over a tree of folders: d holds d/a and d/c, d/a holds      *)
(* d/a/b; a folder may hold a markdown file, an image, both or nothing.      *)

Folders == {"d", "d/a", "d/a/b", "d/c"}

\* os.scandir(directory), the entries that are folders
Subfolders(directory) ==
    CASE directory = "d" -> << "d/a", "d/c" >>
      [] directory = "d/a" -> << "d/a/b" >>
      [] OTHER -> << >>

\* os.path.basename(directory)
DirName(directory) ==
    CASE directory = "d" -> "d"
      [] directory = "d/a" -> "a"
      [] directory = "d/a/b" -> "b"
      [] OTHER -> "c"

\* the markdown file and the image a folder may hold
MdFile(directory) == directory \o "/p.md"
PngFile(directory) == directory \o "/x.png"

\* the temporary file get_landing_page_doc_file writes for a folder without
\* README.md: '# ' + os.path.basename(directory)
TmpFile(directory) == "/tmp/" \o directory

\* os.path.splitext(file)[1] == '.md'
IsMd(file) == file \in {MdFile(d) : d \in Folders}

\* the files a folder holds
FilesIn(directory) ==
    ({MdFile(directory)} \cap DOMAIN local)
        \cup ({PngFile(directory)} \cap DOMAIN disk)

\* os.walk(directory): the folder and every folder below it
RECURSIVE Walked(_)
Walked(directory) ==
    {directory} \cup UNION {Walked(d) : d \in SeqSet(Subfolders(directory))}

\* a test that finds a matching file everywhere
does_path_contain_anything(directory) == TRUE

\* does_path_contain(directory, lambda file: splitext(file)[1] == '.md')
does_path_contain(directory) ==
    \E d \in Walked(directory) : \E file \in FilesIn(d) : IsMd(file)

\* dir_landing_as_ancestors = None
NoLanding == -2

\* upload_folder(directory, ancestors) and its last loop, over the folders
\* of the directory from the i-th on
RECURSIVE upload_folder(_, _, _)
RECURSIVE upload_subfolders(_, _, _, _)
upload_subfolders(s, folders, i, dir_landing_as_ancestors) ==
    IF s.failed \/ i > Len(folders) THEN [s |-> s, ret |-> << >>]
    ELSE Only({ Only({
             [s |-> rest.s, ret |-> r.ret \o rest.ret]
        : rest \in {upload_subfolders(r.s, folders, i + 1,
                                      dir_landing_as_ancestors)} })
        : r \in {upload_folder(s, folders[i], dir_landing_as_ancestors)} })

upload_folder(s, directory, ancestors) ==
    IF s.failed \/ ~does_path_contain(directory) THEN [s |-> s, ret |-> << >>]
    ELSE
    Only({ Only({ Only({
        [s |-> sub.s, ret |-> own.ret \o made.ret \o sub.ret]
        : sub \in {upload_subfolders(made.s, Subfolders(directory), 1,
                                     made.landing)} })
        \* "if dir_landing_as_ancestors is None and not SIMULATE"
        : made \in {IF own.landing # NoLanding \/ SIMULATE \/ own.s.failed
                    THEN [s |-> own.s, ret |-> << >>, landing |-> own.landing]
                    ELSE Only({ [s |-> l.s, ret |-> << l.ret >>,
                                 landing |-> l.ret]
                        : l \in {create_dir_landing_page(
                                     own.s, TmpFile(directory), ancestors)} })} })
        \* the loop over the markdown files of the directory
        : own \in {IF MdFile(directory) \notin FilesIn(directory)
                   THEN [s |-> s, ret |-> << >>, landing |-> NoLanding]
                   ELSE Only({ Only({
                       IF SIMULATE
                       THEN [s |-> h.s, ret |-> << >>, landing |-> NoLanding]
                       ELSE Only({ [s |-> c.s, ret |-> << c.ret >>,
                                    landing |-> c.ret]
                           : c \in {create_or_update_page(
                                        h.s, t.ret, h.html, ancestors,
                                        MdFile(directory))} })
                       : h \in {get_html(t.s, MdFile(directory))} })
                       : t \in {get_title(s, MdFile(directory))} })} })

\* the documents of a tree whose markdown files are in the folders of mds,
\* with the landing file a folder without one would be given
FolderDocs(mds) ==
    [f \in {MdFile(d) : d \in mds} \cup {TmpFile(d) : d \in Folders} |->
        [base |-> IF IsMd(f)
                  THEN "P-" \o DirName(CHOOSE d \in Folders : MdFile(d) = f)
                  ELSE DirName(CHOOSE d \in Folders : TmpFile(d) = f),
         links |-> << >>, imgs |-> << >>, macro |-> FALSE]]

InitFolder ==
    /\ local \in {FolderDocs(mds) : mds \in SUBSET Folders}
    /\ disk \in {[f \in {PngFile(d) : d \in pngs} |-> 7] :
                    pngs \in SUBSET Folders}
    /\ pages = << >>
    /\ atts = << >>
    /\ nextId = 2
    /\ FreshProcess
    /\ ret = [op |-> "none"]
    /\ pc = "folder"
    /\ walk = 0
    /\ landing = 0
    /\ run = 1
    /\ SIMULATE \in BOOLEAN

\* active_pages = upload_folder(DOCUMENTATION_ROOT, root_ancestors)
UploadFolderOp ==
    /\ pc = "folder"
    /\ \E r \in {upload_folder(Cur, "d", ANCESTOR)} :
          /\ Commit(r.s)
          /\ ret' = [op |-> "upload_folder", active |-> r.ret]
          /\ pc' = IF r.s.failed THEN "dead" ELSE "walked"
    /\ UNCHANGED << local, disk, walk, landing, run, SIMULATE >>

NextFolder == UploadFolderOp

SpecFolder == InitFolder /\ [][NextFolder]_vars

\* the folders that hold a markdown file
DocFolders == {d \in Folders : MdFile(d) \in DOMAIN local}

\* a folder with no markdown file in it or anywhere below it
Barren(d) == Walked(d) \cap DocFolders = {}

\* the titles of the pages a folder can get: its document's and the one of a
\* landing page made up for it
TitlesOf(d) == {"P-" \o DirName(d), DirName(d)}

\* C28: after upload_folder has walked the tree, a folder without a document
\* file in its subtree has no page in the space, no request was made for it
\* (so no landing page was made up for it and nothing was written), and no
\* page of it is among the ids reported active; the same holds for each of
\* its subfolders, which are barren as well.
C28_BarrenFolderSkipped ==
    pc = "walked" =>
        \A d \in Folders :
            Barren(d) =>
                /\ \A e \in Walked(d) : Barren(e)
                /\ \A i \in 1 .. Len(calls) : calls[i].title \notin TitlesOf(d)
                /\ \A p \in DOMAIN pages : pages[p].title \notin TitlesOf(d)
                /\ \A k \in 1 .. Len(ret.active) :
                      /\ ret.active[k] \in DOMAIN pages
                      /\ pages[ret.active[k]].title \notin TitlesOf(d)

\* d/c holds an image and no document, d/a holds nothing but the folder d/a/b
\* with a document: landing pages were made up for d and d/a, and d/c was
\* skipped
C28_Witness ==
    /\ pc = "walked" /\ ~SIMULATE
    /\ DocFolders = {"d/a/b"}
    /\ PngFile("d/c") \in DOMAIN disk
    /\ Len(ret.active) = 3
    /\ {pages[p].title : p \in DOMAIN pages} = {"d", "a", "P-b"}


----------------------------------------------------------------------------
(* The descendant memo, checked under SpecTracker *)

\* no page's children were asked of the store twice
QueriedOnce ==
    \A i, j \in 1 .. Len(calls) :
        (i # j /\ calls[i].op = "children" /\ calls[j].op = "children")
            => calls[i].id # calls[j].id

\* C29: after track_child_pages, and before any page is relocated, every
\* entry of the memo stored under a page id p lists exactly the transitive
\* descendants of p, each once, and no page's children were asked of the
\* store more than once.
C29_MemoKeyedByPageId ==
    (pc = "marking") =>
        /\ \A p \in DOMAIN memo :
              /\ SeqSet(memo[p]) = SubtreeOf(p)
              /\ Len(memo[p]) = Cardinality(SubtreeOf(p))
        /\ QueriedOnce

\* what the memo holds instead: an entry is stored under the last direct
\* child of the page it was computed for (under the page itself when it has
\* no child), so a key that has a parent below the root carries its parent's
\* list, itself included
MemoKeyedByLastChild ==
    (pc = "marking") =>
        \A k \in DOMAIN memo :
            \/ /\ RemoteChildren(Cur, k) = << >>
               /\ pages[k].parent \in {ANCESTOR, Home} \/
                    k # RemoteChildren(Cur, pages[k].parent)[
                            Len(RemoteChildren(Cur, pages[k].parent))]
               /\ memo[k] = << >>
            \/ /\ pages[k].parent \in DOMAIN pages
               /\ SeqSet(memo[k]) = SubtreeOf(pages[k].parent)


----------------------------------------------------------------------------
(* track_child_pages on any hierarchy of four pages, the root among them:    *)
(* every page names another page, or the space's home page, as its parent.   *)

\* the depth of calls at which the interpreter raises RecursionError
\* (sys.getrecursionlimit()), scaled to the hierarchies of the model: deeper
\* than any acyclic hierarchy of them
RecursionLimit == 6

\* __get_child_pages and its for loop with the depth of the call stack: a
\* call deeper than the limit raises RecursionError, which nothing catches
RECURSIVE get_child_pages_at(_, _, _)
RECURSIVE get_child_pages_loop_at(_, _, _, _, _)
get_child_pages_loop_at(s, direct, page_ids, i, depth) ==
    IF s.failed \/ i > Len(direct) THEN [s |-> s, ret |-> page_ids]
    ELSE Only({
         LET child_pages == r.ret
         IN  get_child_pages_loop_at(
                 r.s, direct,
                 IF child_pages # << >>
                 THEN page_ids \o
                      SortedSeq(SeqSet(child_pages) \ SeqSet(page_ids))
                 ELSE page_ids,
                 i + 1, depth)
        : r \in {get_child_pages_at(s, direct[i], depth + 1)} })

get_child_pages_at(s, page_id, depth) ==
    IF s.failed THEN [s |-> s, ret |-> << >>]
    ELSE IF depth > RecursionLimit THEN [s |-> Die(s), ret |-> << >>]
    ELSE IF page_id \in DOMAIN s.memo THEN [s |-> s, ret |-> s.memo[page_id]]
    ELSE Only({ Only({
         LET key == IF d.ret = << >> THEN page_id ELSE d.ret[Len(d.ret)]
         IN  IF r.s.failed THEN [s |-> r.s, ret |-> << >>]
             ELSE [s |-> [r.s EXCEPT
                            !.memo = Put(Without(@, key), key, r.ret)],
                   ret |-> r.ret]
        : r \in {get_child_pages_loop_at(d.s, d.ret, d.ret, 1, depth)} })
        : d \in {get_direct_child_pages(s, page_id)} })

\* track_child_pages and its for loop, from the i-th direct child on
RECURSIVE track_child_pages_loop_at(_, _, _)
track_child_pages_loop_at(s, direct, i) ==
    IF s.failed \/ i > Len(direct) THEN s
    ELSE LET child == direct[i]
         IN  Only({
             IF r.s.failed THEN r.s
             ELSE track_child_pages_loop_at(
                      [r.s EXCEPT
                         !.orig = Put(Without(@, child), child, r.ret),
                         !.origOrder = IF child \in SeqSet(@) THEN @
                                       ELSE Append(@, child)],
                      direct, i + 1)
        : r \in {get_child_pages_at(s, child, 1)} })

track_child_pages_at(s) ==
    Only({ track_child_pages_loop_at(d.s, d.ret, 1)
        : d \in {get_direct_child_pages(s, ANCESTOR)} })

\* the pages of the hierarchy: the root and three more
CycleIds == ANCESTOR .. (ANCESTOR + 3)

\* every way to give each page a parent other than itself
Hierarchies ==
    { [i \in CycleIds |-> TreePage(i, parent[i])] :
        parent \in { f \in [CycleIds -> {Home} \cup CycleIds] :
                       \A i \in CycleIds : f[i] # i } }

InitCycle ==
    /\ local = << >>
    /\ disk = << >>
    /\ pages \in Hierarchies
    /\ atts = << >>
    /\ nextId = ANCESTOR + 4
    /\ FreshProcess
    /\ ret = [op |-> "none"]
    /\ pc = "track"
    /\ walk = 0
    /\ landing = 0
    /\ run = 1
    /\ SIMULATE = FALSE

\* CHILD_PAGES.track_child_pages()
TrackCycleOp ==
    /\ pc = "track"
    /\ \E s \in {track_child_pages_at(Cur)} :
          Commit(s) /\ Goto(s, "tracked")
    /\ ret' = [op |-> "track"]
    /\ Fixed

NextCycle == TrackCycleOp

SpecCycle == InitCycle /\ [][NextCycle]_vars

\* C30: track_child_pages returns on every hierarchy: the call never ends in
\* an error of the enumeration itself.
C30_EnumerationTotal == pc # "dead"

\* on a hierarchy in which no page is its own ancestor the enumeration returns
ReturnsOnAcyclic ==
    (\A i \in CycleIds : \E n \in 1 .. 4 :
         LET up[k \in 0 .. 4] ==
                 IF k = 0 THEN i
                 ELSE IF up[k - 1] \in CycleIds THEN pages[up[k - 1]].parent
                 ELSE Home
         IN  up[n] = Home)
        => pc # "dead"


----------------------------------------------------------------------------
(* The reference retry pass as a frame: what resolve_missing_refs may change  *)
(* of the remote space.                                                       *)

\* the queued files none of whose links has a target with a remote page,
\* looked up the way resolve_refs looks it up
StillUnresolvable(f) ==
    \A k \in 1 .. Len(Doc(f).links) :
        /\ Doc(f).links[k] \in DOMAIN local
        /\ RemoteFind(Cur, Doc(Doc(f).links[k]).base) = {}

\* the page writes of the step
StepWrites ==
    { k \in (Len(calls) + 1) .. Len(calls') :
          calls'[k].op \in {"update", "create", "label", "delete", "move", "upload", "put_hash"} }

C31_WitnessNoWrite ==
    /\ pc = "trash" /\ Len(again) > 0
    /\ \A k \in 1 .. Len(calls) : calls[k].at = "retry" => calls[k].op \notin {"update"}


----------------------------------------------------------------------------
(* The trash decision against the trimming it announces.                      *)

\* the pages whose parent differs between two remote spaces
Moved(before, after) ==
    { i \in DOMAIN before : i \notin DOMAIN after
                            \/ after[i].parent # before[i].parent }

\* the space after trim_child_pages has run with dry-run off on the snapshot
\* and the active list of the state
TrimmedSpace ==
    delete_pages(Cur, ToTrim(Cur, 1, 1), TrashId, 1).pages

\* C32: trash_needed() is true exactly when trim_child_pages, run with
\* dry-run off on the same snapshot and the same active list, relocates at
\* least one page; and a trimming the program performs with dry-run off
\* relocates a page exactly when trash_needed() was true before it.
C32_TrashNeededIffRelocation ==
    [][ pc = "marking" =>
          /\ trash_needed(Cur) <=> (Moved(pages, TrimmedSpace) # {})
          /\ (pc' # "marking" /\ ~SIMULATE) =>
                 (trash_needed(Cur) <=> (Moved(pages, pages') # {})) ]_vars

\* a trimming has moved a page under the trash page after trash_needed()
\* answered true on the same snapshot and active list
C32_Witness ==
    /\ pc = "trimmed" /\ ~SIMULATE
    /\ \E i \in TreeIds : pages[i].parent = TrashId
    /\ \E i \in 1 .. Len(origOrder) : origOrder[i] \notin SeqSet(active)


----------------------------------------------------------------------------
(* Ownership: which pages the upserts and the retry pass write.               *)

\* the page-update requests the step sends
StepUpdates ==
    { k \in (Len(calls) + 1) .. Len(calls') : calls'[k].op = "update" }

\* the page carried the ownership label before the step, or the step created
\* it and the page carries the label after it
OwnedAtWrite(id) ==
    IF id \in DOMAIN pages
    THEN OwnLabel \in SeqSet(pages[id].labels)
    ELSE id \in DOMAIN pages' /\ OwnLabel \in SeqSet(pages'[id].labels)

\* C33: no page update sent by create_or_update or by the reference retry
\* pass targets a remote page that lacks the ownership label: the page the
\* update names carried the label before the step, or was created and
\* labelled by the step itself.
C33_UpdatesOnlyOwned ==
    [][ \A k \in StepUpdates : OwnedAtWrite(calls'[k].id) ]_vars

\* a title of the local tree is held by a remote page without the label, and
\* the run has sent an accepted update under the suffixed title
C33_Witness ==
    /\ \E i \in DOMAIN pages :
           /\ pages[i].title = "A" /\ OwnLabel \notin SeqSet(pages[i].labels)
    /\ \E k \in 1 .. Len(calls) :
           /\ calls[k].op = "update" /\ calls[k].ok
           /\ calls[k].title = "A (1)"


----------------------------------------------------------------------------
(* The URL resolve_refs writes for a relative link.                           *)

\* the links of the remote body of x that have been rewritten to a URL other
\* than that of the page of their target file
Misdirected(x) ==
    { k \in 1 .. Len(local[x].links) :
          LET y == local[x].links[k]
              written == pages[PageOf(x)].body.links[k]
          IN  /\ written.rel = ""
              /\ ~ (y \in DOMAIN titleCache /\ PagesOf(y) # {}
                    /\ written.url = PageOf(y)) }

\* C34: when resolve_refs has rewritten a relative document link, the URL in
\* the remote body is the canonical URL of the page this run synchronizes
\* from the link's target file, also when the target's title carries a
\* numeric suffix.
C34_LinkNamesTargetPage ==
    \A x \in DOMAIN titleCache :
        (AfterRetry /\ PagesOf(x) # {}) => Misdirected(x) = {}

\* f2's title was disambiguated with a suffix and the link of f1 to f2 has
\* been rewritten in the remote body of f1
C34_Witness ==
    /\ AfterRetry
    /\ LinksTo("f1", "f2")
    /\ "f2" \in DOMAIN titleCache /\ titleCache["f2"] # local["f2"].base
    /\ PagesOf("f1") # {}
    /\ pages[PageOf("f1")].body.links[1].rel = ""


----------------------------------------------------------------------------
(* A page that embeds two local files of one base filename: f1 embeds         *)
(* a/x.png, or a/x.png and b/x.png, whose contents are equal or differ.       *)

TwinLocals ==
    { ("f0" :> [base |-> "R", links |-> << >>, imgs |-> << >>, macro |-> TRUE])
      @@ ("f1" :> [base |-> "A", links |-> << >>, imgs |-> i1, macro |-> FALSE])
      @@ ("f2" :> [base |-> "B", links |-> l2, imgs |-> << >>, macro |-> FALSE]) :
        i1 \in {<< "a/x.png" >>, << "a/x.png", "b/x.png" >>},
        l2 \in {<< >>, << "f1" >>} }

\* the contents of the two files
TwinDisks == { ("a/x.png" :> 7) @@ ("b/x.png" :> d) : d \in {7, 8} }

InitTwin ==
    /\ local \in TwinLocals
    /\ disk \in TwinDisks
    /\ pages \in PreSpaces
    /\ atts = << >>
    /\ nextId = 2 + MaxPre
    /\ FreshProcess
    /\ ret = [op |-> "none"]
    /\ pc = "track"
    /\ walk = 0
    /\ landing = 0
    /\ run = 1
    /\ SIMULATE = FALSE

SpecTwin == InitTwin /\ [][Next]_vars

\* the byte transfers and hash-property writes of the run so far
Transfers ==
    { k \in 1 .. Len(calls) : calls[k].op \in {"upload", "put_hash"} }

\* f1 embeds two files of one base filename whose contents differ
TwinsDiffer ==
    /\ Len(local["f1"].imgs) = 2
    /\ disk["a/x.png"] # disk["b/x.png"]

\* C35: re-synchronizing an unchanged tree performs no attachment byte
\* transfer and no hash-property write, for every tree, including one in
\* which a page embeds two different local files of one base filename.
C35_ResyncTransfersNothing ==
    run = 2 => Transfers = {}

\* the second run transfers nothing unless a page embeds two files of one
\* base filename with different contents
ResyncTransfersNothingButTwins ==
    (run = 2 /\ ~TwinsDiffer) => Transfers = {}

\* the second run over a tree whose page embeds two different files of one
\* base filename has walked the page's file
C35_Witness ==
    /\ run = 2 /\ pc = "done"
    /\ TwinsDiffer


----------------------------------------------------------------------------
(* One attachment over several runs: the file is synchronized to page 1 again *)
(* and again, by the same process or by a new one, a run may abort on a       *)
(* failed request, and the file may be rewritten between the calls.           *)

\* number of calls of __upload_attachment in all
MaxCalls == 3

\* number of processes in all
MaxRuns == 3

SkipPage == 1

SkipKey == << SkipPage, Basename(AttachFile) >>

\* the store's answers here: the metadata reads succeed; the upload succeeds
\* at once, after one 401, or never; the hash write succeeds or never does
SkipNets ==
    [get_attachment : { << 200, 200, 200 >> },
     upload : { << 200, 200, 200 >>, << 401, 200, 200 >>, << 401, 401, 401 >> },
     get_hash : { << 200, 200, 200 >> },
     put_hash : { << 200, 200, 200 >>, << 401, 401, 401 >> }]

InitSkip ==
    /\ local = << >>
    /\ disk = (AttachFile :> 7)
    /\ pages = << >>
    /\ atts = << >>
    /\ nextId = 3
    /\ FreshProcess
    /\ ret = [op |-> "none", val |-> FALSE]
    /\ pc = "sync"
    /\ walk = 0
    /\ landing = 0
    /\ run = 1
    /\ SIMULATE = FALSE

\* __upload_attachment(page_id, file, comment)
SyncAttachmentOp ==
    /\ pc = "sync" /\ ~failed /\ walk < MaxCalls
    /\ \E net \in SkipNets :
          \E r \in {upload_attachment_answered(Cur, SkipPage, AttachFile, net)} :
              /\ Commit(r.s)
              /\ ret' = [op |-> "upload_attachment", val |-> r.ret]
              /\ pc' = IF r.s.failed THEN "aborted" ELSE "sync"
    /\ walk' = walk + 1
    /\ UNCHANGED << local, disk, landing, run, SIMULATE >>

\* the file is rewritten between two calls: new bytes, or the former ones
RewriteFileOp ==
    /\ pc \in {"sync", "aborted"} /\ walk < MaxCalls
    /\ disk' = (AttachFile :> (IF disk[AttachFile] = 7 THEN 8 ELSE 7))
    /\ UNCHANGED << pages, atts, nextId, local, cache, again, titleCache,
                    shaCache, orig, origOrder, active, memo, calls, failed,
                    ret, pc, walk, landing, run, SIMULATE >>

\* the program is started again, after a run that ended or one that aborted
StartProcessOp ==
    /\ pc \in {"sync", "aborted"} /\ run < MaxRuns /\ walk < MaxCalls
    /\ run' = run + 1
    /\ pc' = "sync"
    /\ cache' = << >>
    /\ again' = << >>
    /\ titleCache' = << >>
    /\ shaCache' = << >>
    /\ orig' = << >>
    /\ origOrder' = << >>
    /\ active' = << >>
    /\ memo' = << >>
    /\ calls' = << >>
    /\ failed' = FALSE
    /\ UNCHANGED << pages, atts, nextId, local, disk, ret, walk, landing,
                    SIMULATE >>

NextSkip ==
    \/ SyncAttachmentOp
    \/ RewriteFileOp
    \/ StartProcessOp

SpecSkip == InitSkip /\ [][NextSkip]_vars

\* the step is a call of __upload_attachment that returned True without
\* sending the bytes: the stored hash equalled the digest of the local file
Skipped ==
    /\ walk' = walk + 1
    /\ ret'.val /\ ~failed'
    /\ \A k \in (Len(calls) + 1) .. Len(calls') : calls'[k].op # "upload"

\* C36: whenever __upload_attachment skips the transfer because the stored
\* hash equals the local file's hash, the bytes of the remote attachment are
\* the bytes of the local file, after any sequence of runs on the attachment,
\* also after a run that aborted between the byte upload and the hash write.
C36_SkipMeansSameBytes ==
    [][ Skipped => (SkipKey \in DOMAIN atts'
                    /\ atts'[SkipKey].data = disk'[AttachFile]) ]_vars

\* a call has skipped the transfer in a process started after a run that
\* aborted between the byte upload and the hash write
C36_Witness ==
    /\ run > 1 /\ pc = "sync" /\ ret.op = "upload_attachment" /\ ret.val
    /\ SkipKey \in DOMAIN atts
    /\ atts[SkipKey].hash = Sha256(disk[AttachFile])
    /\ \A k \in 1 .. Len(calls) : calls[k].op # "upload"
    /\ calls # << >>
    /\ atts[SkipKey].data # disk[AttachFile]
    /\ atts[SkipKey].data # NoBytes


----------------------------------------------------------------------------
(* Creation and labelling under remote failures: the two documents of a       *)
(* folder are upserted into an empty space by successive runs; the store may  *)
(* refuse the create request or the label request of an upsert.               *)

\* create_or_update_page with the store's answers to the attempts of its
\* create request and of its label request (make_request_post, lines 123 and
\* 220); the update branch is update_page as it is
create_or_update_page_answered(s, title, body, ancestors, filepath, net) ==
    IF s.failed THEN [s |-> s, ret |-> 0]
    ELSE
    Only({
        IF r.page # NoPage
        THEN update_page(r.s, r.page.id, title, body, r.page.version,
                         ancestors, filepath)
        ELSE
        LET page_id == r.s.nextId
            c == [op |-> "create", id |-> page_id, title |-> title, ver |-> 1,
                  cur |-> 0, body |-> NoBytes]
        IN
        Only({
        IF posted.s.failed THEN [s |-> posted.s, ret |-> 0]
        ELSE
        Only({ Only({
            IF labelled.s.failed THEN [s |-> labelled.s, ret |-> 0]
            ELSE
            LET s2 == [labelled.s EXCEPT
                          !.pages[page_id].labels = Append(@, OwnLabel)]
            IN  IF HasImg(body)
                THEN update_page(s2, page_id, title, body, 1, ancestors,
                                 filepath)
                ELSE [s |-> s2, ret |-> page_id]
            : labelled \in {make_request(
                               s1, [c EXCEPT !.op = "label",
                                             !.title = OwnLabel, !.ver = 0],
                               net.label, TRUE)} })
            : s1 \in {[posted.s EXCEPT
                          !.nextId = page_id + 1,
                          !.pages = Put(@, page_id,
                                        [title |-> title,
                                         body |-> ServerStore(body),
                                         parent |-> ancestors, version |-> 1,
                                         labels |-> << >>])]} })
        : posted \in {make_request(r.s, c, net.create, TRUE)} })
        : r \in {get_page(s, title)} })

LabelFiles == << "f1", "f2" >>

LabelLocals ==
    ("f1" :> [base |-> "A", links |-> << >>, imgs |-> << >>, macro |-> FALSE])
    @@ ("f2" :> [base |-> "B", links |-> << >>, imgs |-> << "a/x.png" >>,
                 macro |-> FALSE])

\* the store's answers to a request here: accepted, accepted after one 401,
\* 401 on every attempt, or refused
PostAnswers ==
    { << 200, 200, 200 >>, << 401, 200, 200 >>, << 401, 401, 401 >>,
      << 409, 200, 200 >> }

LabelNets == [create : PostAnswers, label : PostAnswers]

InitLabel ==
    /\ local = LabelLocals
    /\ disk = ("a/x.png" :> 7)
    /\ pages = << >>
    /\ atts = << >>
    /\ nextId = 2
    /\ FreshProcess
    /\ ret = [op |-> "none"]
    /\ pc = "files"
    /\ walk = 1
    /\ landing = 0
    /\ run = 1
    /\ SIMULATE = FALSE

\* one markdown file of the folder: title, html, create_or_update_page
UpsertFileOp ==
    /\ pc = "files" /\ walk <= Len(LabelFiles)
    /\ \E net \in LabelNets :
       \E file \in {LabelFiles[walk]} :
       \E t \in {get_title(Cur, file)} :
       \E h \in {get_html(t.s, file)} :
       \E r \in {create_or_update_page_answered(h.s, t.ret, h.html, ANCESTOR,
                                                file, net)} :
          /\ Commit(r.s)
          /\ ret' = [op |-> "create_or_update", title |-> t.ret,
                     filepath |-> file, val |-> r.ret]
          /\ pc' = IF r.s.failed THEN "aborted"
                   ELSE IF walk = Len(LabelFiles) THEN "ended" ELSE "files"
    /\ walk' = walk + 1
    /\ UNCHANGED << local, disk, landing, run, SIMULATE >>

\* the program is started again, after a run that ended or one that aborted
RestartOp ==
    /\ pc \in {"ended", "aborted"} /\ run < MaxRuns
    /\ run' = run + 1
    /\ pc' = "files"
    /\ walk' = 1
    /\ cache' = << >>
    /\ again' = << >>
    /\ titleCache' = << >>
    /\ shaCache' = << >>
    /\ orig' = << >>
    /\ origOrder' = << >>
    /\ active' = << >>
    /\ memo' = << >>
    /\ calls' = << >>
    /\ failed' = FALSE
    /\ UNCHANGED << pages, atts, nextId, local, disk, ret, landing, SIMULATE >>

NextLabel ==
    \/ UpsertFileOp
    \/ RestartOp

SpecLabel == InitLabel /\ [][NextLabel]_vars

\* a run has ended, by reaching its end or by aborting
RunEnded == pc \in {"ended", "aborted"}

\* the pages whose title is the heading of the document or the heading with a
\* numeric suffix.  The space is empty before the first run, so every page of
\* it was created by the tool.
CreatedFor(f) ==
    { i \in DOMAIN pages :
          \/ pages[i].title = local[f].base
          \/ \E n \in 1 .. MaxRuns : pages[i].title = Suffixed(local[f].base, n) }

\* C37: in every state in which a run has ended, also by aborting on a fatal
\* remote error, every page the tool has created carries the ownership label;
\* hence no document has a second, suffixed page.
C37_CreatedPagesLabelled ==
    RunEnded =>
        /\ \A i \in DOMAIN pages : OwnLabel \in SeqSet(pages[i].labels)
        /\ \A f \in DOMAIN local : Cardinality(CreatedFor(f)) <= 1

\* the pages created by runs that reached their end are labelled, and a run
\* that aborted leaves at most one page without the label
LabelledUnlessAborted ==
    /\ pc = "ended" =>
           \A k \in 1 .. Len(calls) :
               (calls[k].op = "create" /\ calls[k].ok)
                   => OwnLabel \in SeqSet(pages[calls[k].id].labels)
    /\ pc = "aborted" =>
           Cardinality({ k \in 1 .. Len(calls) :
                           /\ calls[k].op = "create" /\ calls[k].ok
                           /\ OwnLabel \notin SeqSet(pages[calls[k].id].labels) })
               <= 1

\* a run aborted on the label request of the page it had created, and a later
\* run has created a suffixed page for the same document
C37_Witness ==
    /\ run > 1 /\ RunEnded
    /\ \E i, j \in DOMAIN pages :
          /\ pages[i].title = "A" /\ pages[i].labels = << >>
          /\ pages[j].title = "A (1)"


----------------------------------------------------------------------------
(* The record the reference retry pass reads.                                 *)

\* the queued files whose title no remote page carries
QueuedWithoutPage ==
    { i \in 1 .. Len(again) :
          again[i] \notin DOMAIN titleCache \/ PagesOf(again[i]) = {} }

\* C38: whenever the reference retry pass processes a queued file, a remote
\* page of that file's title exists, so the version and the ancestor it uses
\* come from a present record; in every run mode, dry-run included.
C38_QueuedFileHasPage ==
    pc = "retry" => QueuedWithoutPage = {}

\* the retry pass never aborts the run
RetryNeverAborts ==
    [][ pc = "retry" => pc' # "dead" ]_vars

\* the folder walk is over, a file is queued, and the retry pass is about to
\* process it
C38_Witness ==
    /\ pc = "retry" /\ Len(again) > 0 /\ ~failed
    /\ QueuedWithoutPage # {}

====
